---- MODULE Spec2Model ----
(***************************************************************************)
(* Device-orientation demo: the orientation-math core (mathTypes.ts) and   *)
(* the page that drives it (main.ts with the two 3D scenes).               *)
(*                                                                         *)
(* Numbers.  A JavaScript number is modelled in fixed point: the integer n *)
(* stands for n / ONE.  A number that is the argument of Math.cos/Math.sin *)
(* or the result of Math.atan2 is a record [u, n]: with u = "pi180" it     *)
(* stands for (n / ONE) * (Math.PI / 180), with u = "one" for n / ONE.     *)
(* So 90 * (Math.PI / 180) and the bare number 90 are different values,    *)
(* and Math.cos gives 0 for the first and cos(90 rad) = -0.448 for the     *)
(* second.                                                                 *)
(***************************************************************************)
EXTENDS Integers, Sequences, FiniteSets, TLC

\* ------------------------------------------------------------------------
\* Fixed-point numbers
\* ------------------------------------------------------------------------

\* the number 1
ONE == 1000
\* the literals 180 and 360 of the degree conversions
D180 == 180000
D360 == 360000
D90 == 90000
\* the value for which isNaN() is true
NaN == 999999999

Abs(n) == IF n < 0 THEN -n ELSE n

\* n / d rounded to the nearest integer, halves away from zero
RoundDiv(n, d) ==
  IF n >= 0 THEN (2 * n + d) \div (2 * d) ELSE -((2 * (-n) + d) \div (2 * d))

\* a * b on fixed-point numbers
Mul(a, b) == RoundDiv(a * b, ONE)

\* ------------------------------------------------------------------------
\* Angles: Math.PI / 180, Math.cos, Math.sin, Math.atan2, Math.sqrt
\* ------------------------------------------------------------------------

\* x * (Math.PI / 180)
TimesPiOver180(x) == [u |-> "pi180", n |-> x]
\* a bare number used as it is
Plain(x) == [u |-> "one", n |-> x]
\* -x
Neg(a) == [u |-> a.u, n |-> -a.n]
\* a * (180 / Math.PI), a being a multiple of Math.PI / 180
Times180OverPi(a) == a.n

\* the angles whose cosine and sine the model knows: k * 90 degrees, and
\* the two angles of the 3-4-5 triangle (36.870 and 53.130 degrees) in every
\* quadrant; [deg, cos, sin]
TrigTable ==
  { <<0, 1000, 0>>,        <<36870, 800, 600>>,    <<53130, 600, 800>>,
    <<90000, 0, 1000>>,    <<126870, -600, 800>>,  <<143130, -800, 600>>,
    <<180000, -1000, 0>>,  <<216870, -800, -600>>, <<233130, -600, -800>>,
    <<270000, 0, -1000>>,  <<306870, 600, -800>>,  <<323130, 800, -600>> }

\* cosine and sine of a bare number of radians: [rad, cos, sin]
RadTable ==
  { <<0, 1000, 0>>,
    <<90000, -448, 894>>,   <<-90000, -448, -894>>,
    <<180000, -598, -801>>, <<-180000, -598, 801>>,
    <<270000, 984, -176>>,  <<-270000, 984, 176>>,
    <<360000, -284, 959>>,  <<-360000, -284, -959>> }

TrigRow(a) ==
  IF a.u = "pi180"
  THEN CHOOSE t \in TrigTable : t[1] = a.n % D360
  ELSE CHOOSE t \in RadTable : t[1] = a.n

Cos(a) == TrigRow(a)[2]
Sin(a) == TrigRow(a)[3]

\* arctangent of num/den for 0 <= num <= den, in degrees
AtanTable ==
  { <<0, 1, 0>>,
    <<1, 5, 11310>>, <<1, 4, 14036>>, <<1, 3, 18435>>, <<2, 5, 21801>>,
    <<1, 2, 26565>>, <<3, 5, 30964>>, <<2, 3, 33690>>, <<3, 4, 36870>>,
    <<4, 5, 38660>>, <<1, 1, 45000>> }

AtanLow(p, q) == (CHOOSE t \in AtanTable : p * t[2] = q * t[1])[3]

\* Math.atan2(y, x); the result is a multiple of Math.PI / 180
Atan2(y, x) ==
  LET ay == Abs(y)
      ax == Abs(x)
      acute == IF ay = 0 THEN 0
               ELSE IF ax = 0 THEN D90
               ELSE IF ay <= ax THEN AtanLow(ay, ax)
               ELSE D90 - AtanLow(ax, ay)
      mag == IF x < 0 THEN D180 - acute ELSE acute
  IN  [u |-> "pi180", n |-> IF y < 0 THEN -mag ELSE mag]

RECURSIVE SqrtSearch(_, _, _)
SqrtSearch(lo, hi, t) ==
  IF lo >= hi THEN lo
  ELSE LET mid == (lo + hi + 1) \div 2
       IN  IF mid * mid <= t THEN SqrtSearch(mid, hi, t)
           ELSE SqrtSearch(lo, mid - 1, t)

\* Math.sqrt(v) on fixed-point numbers, rounded to the nearest
Sqrt(v) ==
  LET t == v * ONE
      f == SqrtSearch(0, 40000, t)
  IN  IF t - f * f <= (f + 1) * (f + 1) - t THEN f ELSE f + 1

\* ------------------------------------------------------------------------
\* mathTypes.ts
\* ------------------------------------------------------------------------

dotProduct(v1, v2) ==
  Mul(v1[1], v2[1]) + Mul(v1[2], v2[2]) + Mul(v1[3], v2[3])

multiplyMatrixVector_columns(matrix, vector) ==
  << dotProduct(<<matrix[1][1], matrix[2][1], matrix[3][1]>>, vector),
     dotProduct(<<matrix[1][2], matrix[2][2], matrix[3][2]>>, vector),
     dotProduct(<<matrix[1][3], matrix[2][3], matrix[3][3]>>, vector) >>

multiplyMatrixVector(matrix, vector) ==
  << dotProduct(matrix[1], vector),
     dotProduct(matrix[2], vector),
     dotProduct(matrix[3], vector) >>

multiplyMatrices(A, B) ==
  [r \in 1..3 |->
     [c \in 1..3 |-> dotProduct(A[r], <<B[1][c], B[2][c], B[3][c]>>)]]

buildRotationMatrix_signSlip(alphaRad, betaRad, gammaRad) ==
  LET cA == Cos(alphaRad)
      sA == Sin(alphaRad)
      cB == Cos(betaRad)
      sB == Sin(betaRad)
      cG == Cos(gammaRad)
      sG == Sin(gammaRad)
  IN  << << Mul(cA, cG) - Mul(Mul(sA, sB), sG), -Mul(cB, sA),
            Mul(Mul(cG, sA), sB) + Mul(cA, sG) >>,
         << Mul(cG, sA) + Mul(Mul(cA, sB), sG), Mul(cA, cB),
            Mul(sA, sG) + Mul(Mul(cA, cG), sB) >>,
         << -Mul(cB, sG), sB, Mul(cB, cG) >> >>

buildRotationMatrix_sinForCos(alphaRad, betaRad, gammaRad) ==
  LET cA == Cos(alphaRad)
      sA == Sin(alphaRad)
      cB == Cos(betaRad)
      sB == Sin(betaRad)
      cG == Cos(gammaRad)
      sG == Sin(gammaRad)
  IN  << << Mul(cA, cG) - Mul(Mul(sA, sB), sG), -Mul(cB, sA),
            Mul(Mul(cG, sA), sB) + Mul(cA, sG) >>,
         << Mul(cG, sA) + Mul(Mul(cA, sB), sG), Mul(cA, sB),
            Mul(sA, sG) - Mul(Mul(cA, cG), sB) >>,
         << -Mul(cB, sG), sB, Mul(cB, cG) >> >>

buildRotationMatrix_transposed(alphaRad, betaRad, gammaRad) ==
  LET cA == Cos(alphaRad)
      sA == Sin(alphaRad)
      cB == Cos(betaRad)
      sB == Sin(betaRad)
      cG == Cos(gammaRad)
      sG == Sin(gammaRad)
  IN  << << Mul(cA, cG) - Mul(Mul(sA, sB), sG),
            Mul(cG, sA) + Mul(Mul(cA, sB), sG), -Mul(cB, sG) >>,
         << -Mul(cB, sA), Mul(cA, cB), sB >>,
         << Mul(Mul(cG, sA), sB) + Mul(cA, sG),
            Mul(sA, sG) - Mul(Mul(cA, cG), sB), Mul(cB, cG) >> >>

\* buildRotationMatrix with its second and third columns exchanged
buildRotationMatrix_columnsExchanged(alphaRad, betaRad, gammaRad) ==
  LET cA == Cos(alphaRad)
      sA == Sin(alphaRad)
      cB == Cos(betaRad)
      sB == Sin(betaRad)
      cG == Cos(gammaRad)
      sG == Sin(gammaRad)
  IN  << << Mul(cA, cG) - Mul(Mul(sA, sB), sG),
            Mul(Mul(cG, sA), sB) + Mul(cA, sG), -Mul(cB, sA) >>,
         << Mul(cG, sA) + Mul(Mul(cA, sB), sG),
            Mul(sA, sG) - Mul(Mul(cA, cG), sB), Mul(cA, cB) >>,
         << -Mul(cB, sG), Mul(cB, cG), sB >> >>

buildRotationMatrix(alphaRad, betaRad, gammaRad) ==
  LET cA == Cos(alphaRad)
      sA == Sin(alphaRad)
      cB == Cos(betaRad)
      sB == Sin(betaRad)
      cG == Cos(gammaRad)
      sG == Sin(gammaRad)
  IN  << << Mul(cA, cG) - Mul(Mul(sA, sB), sG), -Mul(cB, sA),
            Mul(Mul(cG, sA), sB) + Mul(cA, sG) >>,
         << Mul(cG, sA) + Mul(Mul(cA, sB), sG), Mul(cA, cB),
            Mul(sA, sG) - Mul(Mul(cA, cG), sB) >>,
         << -Mul(cB, sG), sB, Mul(cB, cG) >> >>

\* "Heading rotation (around Y-axis)"
RotHeading(heading) ==
  LET h == TimesPiOver180(heading)
      ch == Cos(Neg(h))
      sh == Sin(Neg(h))
  IN  << <<ch, 0, sh>>, <<0, ONE, 0>>, <<-sh, 0, ch>> >>

\* "Elevation rotation (around X-axis)"
RotElevation(elevation) ==
  LET e == TimesPiOver180(elevation)
      ce == Cos(e)
      se == Sin(e)
  IN  << <<ONE, 0, 0>>, <<0, ce, -se>>, <<0, se, ce>> >>

RotRoll_signSlip(roll) ==
  LET r == TimesPiOver180(roll)
      cr == Cos(Neg(r))
      sr == Sin(Neg(r))
  IN  << <<cr, -sr, 0>>, <<-sr, cr, 0>>, <<0, 0, ONE>> >>

\* "Roll rotation (around Z-axis)"
RotRoll(roll) ==
  LET r == TimesPiOver180(roll)
      cr == Cos(Neg(r))
      sr == Sin(Neg(r))
  IN  << <<cr, -sr, 0>>, <<sr, cr, 0>>, <<0, 0, ONE>> >>

buildRotationMatrixFromAngles(heading, elevation, roll) ==
  LET Rh == RotHeading(heading)
      Re == RotElevation(elevation)
      Rr == RotRoll(roll)
      RhRe == multiplyMatrices(Rh, Re)
  IN  multiplyMatrices(RhRe, Rr)

\* ------------------------------------------------------------------------
\* main.ts (the page with the two 3D scenes): the pure functions
\* ------------------------------------------------------------------------

calculateOrientationAngles_headingFromEast(northVector, eastVector) ==
  LET headingX == eastVector[1]
      headingY == eastVector[2]
      heading0 == Times180OverPi(Atan2(headingX, headingY))
      heading == IF heading0 < 0 THEN heading0 + D360 ELSE heading0
      elevationZ == northVector[3]
      horizontalDist ==
        Sqrt(Mul(northVector[1], northVector[1])
             + Mul(northVector[2], northVector[2]))
      elevation == Times180OverPi(Atan2(elevationZ, horizontalDist))
      rollZ == eastVector[3]
      rollHorizontalDist ==
        Sqrt(Mul(eastVector[1], eastVector[1])
             + Mul(eastVector[2], eastVector[2]))
      roll == Times180OverPi(Atan2(-rollZ, rollHorizontalDist))
  IN  [heading |-> heading, elevation |-> elevation, roll |-> roll]

calculateOrientationAngles_distFromEast(northVector, eastVector) ==
  LET headingX == northVector[1]
      headingY == northVector[2]
      heading0 == Times180OverPi(Atan2(headingX, headingY))
      heading == IF heading0 < 0 THEN heading0 + D360 ELSE heading0
      elevationZ == northVector[3]
      horizontalDist ==
        Sqrt(Mul(eastVector[1], eastVector[1])
             + Mul(eastVector[2], eastVector[2]))
      elevation == Times180OverPi(Atan2(elevationZ, horizontalDist))
      rollZ == eastVector[3]
      rollHorizontalDist ==
        Sqrt(Mul(eastVector[1], eastVector[1])
             + Mul(eastVector[2], eastVector[2]))
      roll == Times180OverPi(Atan2(-rollZ, rollHorizontalDist))
  IN  [heading |-> heading, elevation |-> elevation, roll |-> roll]

\* Math.asin(z) * (180 / Math.PI) for z of -1, 0 and 1; NaN outside [-1, 1]
AsinDegrees(z) ==
  IF Abs(z) > ONE THEN NaN
  ELSE Times180OverPi(Atan2(z, Sqrt(ONE - Mul(z, z))))

calculateOrientationAngles_asinElevation(northVector, eastVector) ==
  LET headingX == northVector[1]
      headingY == northVector[2]
      heading0 == Times180OverPi(Atan2(headingX, headingY))
      heading == IF heading0 < 0 THEN heading0 + D360 ELSE heading0
      elevationZ == northVector[3]
      elevation == AsinDegrees(elevationZ)
      rollZ == eastVector[3]
      rollHorizontalDist ==
        Sqrt(Mul(eastVector[1], eastVector[1])
             + Mul(eastVector[2], eastVector[2]))
      roll == Times180OverPi(Atan2(-rollZ, rollHorizontalDist))
  IN  [heading |-> heading, elevation |-> elevation, roll |-> roll]

calculateOrientationAngles_wrapAtZero(northVector, eastVector) ==
  LET headingX == northVector[1]
      headingY == northVector[2]
      heading0 == Times180OverPi(Atan2(headingX, headingY))
      heading == IF heading0 <= 0 THEN heading0 + D360 ELSE heading0
      elevationZ == northVector[3]
      horizontalDist ==
        Sqrt(Mul(northVector[1], northVector[1])
             + Mul(northVector[2], northVector[2]))
      elevation == Times180OverPi(Atan2(elevationZ, horizontalDist))
      rollZ == eastVector[3]
      rollHorizontalDist ==
        Sqrt(Mul(eastVector[1], eastVector[1])
             + Mul(eastVector[2], eastVector[2]))
      roll == Times180OverPi(Atan2(-rollZ, rollHorizontalDist))
  IN  [heading |-> heading, elevation |-> elevation, roll |-> roll]

\* calculateOrientationAngles with the radius of the roll given the sign
\* of the x component of the east vector
calculateOrientationAngles_signedRadius(northVector, eastVector) ==
  LET headingX == northVector[1]
      headingY == northVector[2]
      heading0 == Times180OverPi(Atan2(headingX, headingY))
      heading == IF heading0 < 0 THEN heading0 + D360 ELSE heading0
      elevationZ == northVector[3]
      horizontalDist ==
        Sqrt(Mul(northVector[1], northVector[1])
             + Mul(northVector[2], northVector[2]))
      elevation == Times180OverPi(Atan2(elevationZ, horizontalDist))
      rollZ == eastVector[3]
      rollHorizontalDist ==
        Sqrt(Mul(eastVector[1], eastVector[1])
             + Mul(eastVector[2], eastVector[2]))
      roll == Times180OverPi(Atan2(-rollZ,
                IF eastVector[1] < 0 THEN -rollHorizontalDist
                ELSE rollHorizontalDist))
  IN  [heading |-> heading, elevation |-> elevation, roll |-> roll]

calculateOrientationAngles(northVector, eastVector) ==
  LET headingX == northVector[1]
      headingY == northVector[2]
      heading0 == Times180OverPi(Atan2(headingX, headingY))
      heading == IF heading0 < 0 THEN heading0 + D360 ELSE heading0
      elevationZ == northVector[3]
      horizontalDist ==
        Sqrt(Mul(northVector[1], northVector[1])
             + Mul(northVector[2], northVector[2]))
      elevation == Times180OverPi(Atan2(elevationZ, horizontalDist))
      rollZ == eastVector[3]
      rollHorizontalDist ==
        Sqrt(Mul(eastVector[1], eastVector[1])
             + Mul(eastVector[2], eastVector[2]))
      roll == Times180OverPi(Atan2(-rollZ, rollHorizontalDist))
  IN  [heading |-> heading, elevation |-> elevation, roll |-> roll]

IsNaN(x) == x = NaN

normalizeHeadingRange_wrapFrom180(heading) ==
  IF ~IsNaN(heading) /\ heading >= D180 THEN heading - D360 ELSE heading

\* a comparison with NaN is false and arithmetic on NaN gives NaN
normalizeHeadingRange(heading) ==
  IF ~IsNaN(heading) /\ heading > D180 THEN heading - D360 ELSE heading

\* event.alpha, event.beta or event.gamma when the sensor has no value
Null == -999999999

\* the text of an element: a literal, or a number printed by toFixed(1)
\* (tenths holds the number in tenths), with or without the degree sign
Literal(str) == [lit |-> str, tenths |-> 0]
Fixed1(value) == [lit |-> "toFixed(1)", tenths |-> RoundDiv(value, ONE \div 10)]
WithDegreeSign(text) == [lit |-> "toFixed(1) deg", tenths |-> text.tenths]

formatValue(value) ==
  IF value = Null THEN Literal("--")
  ELSE IF IsNaN(value) THEN Literal("NaN")
  ELSE Fixed1(value)

\* Math.round(x / d): the nearest integer, halves upwards
MathRoundOfQuotient(x, d) == (2 * x + d) \div (2 * d)
\* a % b of JavaScript: the sign of the dividend
JsRem(a, b) == IF a >= 0 THEN a % b ELSE -((-a) % b)

directions == <<"N", "NE", "E", "SE", "S", "SW", "W", "NW">>

\* Math.floor(x / d)
MathFloorOfQuotient(x, d) == x \div d

getCompassDirection_floor(heading) ==
  LET index == JsRem(MathFloorOfQuotient(heading, 45 * ONE), 8)
  IN  IF ~IsNaN(heading) /\ index \in 0..7 THEN directions[index + 1]
      ELSE "undefined"

getCompassDirection(heading) ==
  LET index == JsRem(MathRoundOfQuotient(heading, 45 * ONE), 8)
  IN  IF ~IsNaN(heading) /\ index \in 0..7 THEN directions[index + 1]
      ELSE "undefined"

\* ------------------------------------------------------------------------
\* copilot-instructions.md: compassHeading by two implementations. Where both
\* components of the transformed vector are zero, Math.atan2 answers by the
\* sign bits of the zeros, so these functions compute on doubles with their
\* sign bit: n is the value and neg the sign bit (it matters when n = 0)
\* ------------------------------------------------------------------------

Signed(n) == [n |-> n, neg |-> n < 0]
PlusZero == [n |-> 0, neg |-> FALSE]
\* -a
SignedNeg(a) == [n |-> -a.n, neg |-> ~a.neg]
\* a * b: the sign bit of a product is the exclusive or of the sign bits
SignedMul(a, b) == [n |-> Mul(a.n, b.n), neg |-> a.neg # b.neg]
\* a + b: a zero sum is -0 only if both terms are -0
SignedAdd(a, b) ==
  LET n == a.n + b.n
  IN  [n |-> n, neg |-> IF n # 0 THEN n < 0 ELSE a.neg /\ b.neg]
\* a - b
SignedSub(a, b) == SignedAdd(a, SignedNeg(b))
\* Math.cos and Math.sin of an angle whose cosine and sine are exact or
\* away from zero in doubles
SignedCos(a) == Signed(Cos(a))
SignedSin(a) == Signed(Sin(a))

\* dotProduct on such doubles: v1[0] * v2[0] + v1[1] * v2[1] + v1[2] * v2[2]
dotProductSigned(v1, v2) ==
  SignedAdd(SignedAdd(SignedMul(v1[1], v2[1]), SignedMul(v1[2], v2[2])),
            SignedMul(v1[3], v2[3]))

multiplyMatrixVectorSigned(matrix, vector) ==
  << dotProductSigned(matrix[1], vector),
     dotProductSigned(matrix[2], vector),
     dotProductSigned(matrix[3], vector) >>

\* buildRotationMatrix on such doubles
buildRotationMatrixSigned(alphaRad, betaRad, gammaRad) ==
  LET cA == SignedCos(alphaRad)
      sA == SignedSin(alphaRad)
      cB == SignedCos(betaRad)
      sB == SignedSin(betaRad)
      cG == SignedCos(gammaRad)
      sG == SignedSin(gammaRad)
  IN  << << SignedSub(SignedMul(cA, cG), SignedMul(SignedMul(sA, sB), sG)),
            SignedMul(SignedNeg(cB), sA),
            SignedAdd(SignedMul(SignedMul(cG, sA), sB), SignedMul(cA, sG)) >>,
         << SignedAdd(SignedMul(cG, sA), SignedMul(SignedMul(cA, sB), sG)),
            SignedMul(cA, cB),
            SignedSub(SignedMul(sA, sG), SignedMul(SignedMul(cA, cG), sB)) >>,
         << SignedMul(SignedNeg(cB), sG), sB, SignedMul(cB, cG) >> >>

compassHeadingFallback(alphaRad, betaRad, gammaRad) ==
  LET cA == SignedCos(alphaRad)
      sA == SignedSin(alphaRad)
      sB == SignedSin(betaRad)
      cG == SignedCos(gammaRad)
      sG == SignedSin(gammaRad)
      rA == SignedSub(SignedMul(SignedNeg(cA), sG),
                      SignedMul(SignedMul(sA, sB), cG))
      rB == SignedAdd(SignedMul(SignedNeg(sA), sG),
                      SignedMul(SignedMul(cA, sB), cG))
  IN  <<rA, rB, PlusZero>>

compassHeadingLinearAlgebra(alphaRad, betaRad, gammaRad) ==
  LET R == buildRotationMatrixSigned(alphaRad, betaRad, gammaRad)
      v == <<PlusZero, PlusZero, Signed(-ONE)>>
      vPrime == multiplyMatrixVectorSigned(R, v)
  IN  vPrime

\* Math.atan2(x, y) * (180 / Math.PI) on such doubles, as a number and the
\* sign bit: atan2(+-0, +0) is +-0, atan2(+-0, -0) is +-PI, atan2(+-0, y)
\* is +-0 for y > 0 and +-PI for y < 0
SignedAtan2Degrees(x, y) ==
  IF x.n = 0
  THEN IF y.n < 0 \/ (y.n = 0 /\ y.neg)
       THEN Signed(IF x.neg THEN -D180 ELSE D180)
       ELSE [n |-> 0, neg |-> x.neg]
  ELSE Signed(Times180OverPi(Atan2(x.n, y.n)))

\* getHeadingFromVector; -0 < 0 is false, and -0 is the number 0
getHeadingFromVector(transformedVector_) ==
  LET x == transformedVector_[1]
      y == transformedVector_[2]
      heading == SignedAtan2Degrees(x, y).n
  IN  IF heading < 0 THEN heading + D360 ELSE heading

\* compassHeading of copilot-instructions.md, with the value of the
\* module-level useLinearAlgebra it reads: the transformed vector and the
\* heading
compassHeadingSelected(useLinearAlgebra_, alpha, beta, gamma) ==
  LET alphaRad == TimesPiOver180(alpha)
      betaRad == TimesPiOver180(beta)
      gammaRad == TimesPiOver180(gamma)
      transformedVector_ ==
        IF useLinearAlgebra_
        THEN compassHeadingLinearAlgebra(alphaRad, betaRad, gammaRad)
        ELSE compassHeadingFallback(alphaRad, betaRad, gammaRad)
  IN  [ transformedVector |-> transformedVector_,
        heading |-> getHeadingFromVector(transformedVector_) ]

\* ------------------------------------------------------------------------
\* Calls of the pure functions on chosen arguments
\* ------------------------------------------------------------------------

\* the largest quarter turn among the arguments
MaxQuarter == 4

GridDeg == { k * D90 : k \in -MaxQuarter..MaxQuarter }
\* the angles of the 3-4-5 triangle
TriangleDeg == { 36870, 53130, -36870, -53130 }
ExactDeg == GridDeg \cup TriangleDeg

\* arguments of buildRotationMatrix: degrees already converted to radians,
\* and bare numbers
RadInputs ==
  { TimesPiOver180(d) : d \in ExactDeg }
    \cup { Plain(0), Plain(D90), Plain(D360) }

\* components of the vectors handed to calculateOrientationAngles: unit
\* vectors along the axes and in the 3-4-5 directions, and the vectors of
\* length 5 of elevation_geometry.md
CompVals == { 0, 600, -600, 800, -800, 1000, -1000,
              3000, -3000, 4000, -4000, 5000, -5000 }
HorizPairs ==
  { p \in CompVals \X CompVals :
      p[1] * p[1] + p[2] * p[2] \in { 0, ONE * ONE, 25 * ONE * ONE } }
HeightVals == { 0, 1000, -1000, 5000, -5000 }
VecInputs == { <<p[1], p[2], z>> : p \in HorizPairs, z \in HeightVals }

\* headings handed to normalizeHeadingRange and getCompassDirection, in
\* thousandths of a degree: the canonical range [0, 360) around its sector
\* and wrap boundaries, and headings outside it
HeadingInputs ==
  { k * 45000 : k \in 0..7 }
    \cup { k * 45000 + 22499 : k \in 0..7 }
    \cup { k * 45000 + 22500 : k \in 0..7 }
    \cup { 22000, 44000, 46000, 36870, 53130, 179999, 180001, 359000,
           359999 }
    \cup { D360, D360 + D90, -1, -D90, -D180 }

\* matrices and vectors handed to multiplyMatrixVector: rotation matrices,
\* a matrix with nine different entries; the reference vectors of
\* handleOrientation, the other axis vectors and vectors off the axes
MatAngles == { 0, D90, 36870, -53130 }
MatInputs ==
  { buildRotationMatrix(TimesPiOver180(a), TimesPiOver180(b),
                        TimesPiOver180(g)) :
      a \in MatAngles, b \in MatAngles, g \in MatAngles }
    \cup { << <<1000, 2000, 3000>>, <<4000, 5000, 6000>>,
              <<7000, 8000, 9000>> >> }
MulVecInputs ==
  { <<0, 0, -1000>>, <<1000, 0, 0>>, <<0, 1000, 0>>, <<0, 0, 1000>>,
    <<-1000, 0, 0>>, <<0, -1000, 0>>, <<0, 0, 0>>, <<1000, 2000, 3000>>,
    <<-2000, 1000, 5000>> }

ZeroMatrix == << <<0, 0, 0>>, <<0, 0, 0>>, <<0, 0, 0>> >>
ZeroVector == <<0, 0, 0>>
NoAngles == [heading |-> 0, elevation |-> 0, roll |-> 0]

\* a direct call of a pure function: its name, arguments and result
VARIABLES fn, radArgs, degArgs, vecArgs, retMatrix, retAngles
\* the same for the functions of a heading (normalizeHeadingRange,
\* getCompassDirection) and for multiplyMatrixVector
VARIABLES numArg, retNumber, retLabel, mvArgs, retVector
\* and for the compassHeading of copilot-instructions.md: its module-level
\* useLinearAlgebra and its local constant transformedVector
VARIABLES useLinearAlgebra, transformedVector

\* the platform: DeviceOrientationEvent is defined, it has a requestPermission
\* function, the two canvases are in the document
VARIABLES doeDefined, hasRequestPermission, canvasesPresent

\* the page: the load event has run initializeApp; the request button; the
\* permission requests awaiting their answer; the deviceorientation listener;
\* the value the last awaited request gave to the constant permission of
\* requestPermission ("rejected" when the await threw); the number of calls
\* of window.addEventListener('deviceorientation', handleOrientation)
VARIABLES loaded, buttonDisabled, buttonHidden, buttonText, awaiting,
          listening, permission, registrations

\* the text of the seven output elements
VARIABLES alphaText, betaText, gammaText, headingText, directionText,
          elevationText, rollText

\* the tabs (the buttons and the contents of class 'active', and the argument
\* of the last call of switchTab), the two scenes (null or a scene with its
\* rotation) and the resize listeners on window
VARIABLES activeButtons, activeContents, tabName, deviceScene,
          extractedScene, resizeListeners

\* the last run of handleOrientation: its event, the branch it took, its
\* local constant angles and the functions it called, in the order of the
\* calls
VARIABLES sample, branch, angles, invoked

\* the earlier main.ts with the normalization toggle (src/src/main.ts) has
\* the same elements, button and listener, and besides them: its two state
\* variables, the status element (its text and its 'error' class) and the
\* local constant heading of the last run of its handleOrientation
VARIABLES normalizeHeading, permissionGranted, statusText, statusError,
          lastHeading

moreCallVars == <<numArg, retNumber, retLabel, mvArgs, retVector>>
vectorCallVars == <<useLinearAlgebra, transformedVector>>
coreVars == <<fn, radArgs, degArgs, vecArgs, retMatrix, retAngles,
              moreCallVars, vectorCallVars>>
platformVars == <<doeDefined, hasRequestPermission, canvasesPresent>>
buttonVars == <<buttonDisabled, buttonHidden, buttonText, awaiting, listening,
                permission, registrations>>
rawTextVars == <<alphaText, betaText, gammaText>>
angleTextVars == <<headingText, directionText, elevationText, rollText>>
tabVars == <<activeButtons, activeContents, tabName>>
sceneVars == <<deviceScene, extractedScene, resizeListeners>>
handlerVars == <<sample, branch, angles, invoked>>
toggleVars == <<normalizeHeading, permissionGranted, statusText, statusError,
                lastHeading>>
pageVars == <<loaded, buttonVars, rawTextVars, angleTextVars, tabVars,
              sceneVars, handlerVars, toggleVars>>

vars == <<coreVars, platformVars, pageVars>>

NullScene == [made |-> FALSE, rotation |-> ZeroMatrix]
NoSample == <<Null, Null, Null>>
Tabs == { "data", "visualization" }

\* the page before the load event
InitPage ==
  /\ loaded = FALSE
  /\ buttonDisabled = FALSE
  /\ buttonHidden = FALSE
  /\ buttonText = "initial"
  /\ awaiting = 0
  /\ listening = FALSE
  /\ permission = "none"
  /\ registrations = 0
  /\ alphaText = Literal("initial")
  /\ betaText = Literal("initial")
  /\ gammaText = Literal("initial")
  /\ headingText = Literal("initial")
  /\ directionText = Literal("initial")
  /\ elevationText = Literal("initial")
  /\ rollText = Literal("initial")
  /\ activeButtons = { "data" }
  /\ activeContents = { "data" }
  /\ tabName = "none"
  /\ deviceScene = NullScene
  /\ extractedScene = NullScene
  /\ resizeListeners = 0
  /\ sample = NoSample
  /\ branch = "none"
  /\ angles = NoAngles
  /\ invoked = <<>>
  /\ normalizeHeading = TRUE
  /\ permissionGranted = FALSE
  /\ statusText = "initial"
  /\ statusError = FALSE
  /\ lastHeading = 0

InitPlatformFixed ==
  /\ doeDefined = TRUE
  /\ hasRequestPermission = FALSE
  /\ canvasesPresent = TRUE

InitCalls ==
  /\ fn = "none"
  /\ radArgs = <<Plain(0), Plain(0), Plain(0)>>
  /\ degArgs = <<0, 0, 0>>
  /\ vecArgs = <<ZeroVector, ZeroVector>>
  /\ retMatrix = ZeroMatrix
  /\ retAngles = NoAngles
  /\ numArg = 0
  /\ retNumber = 0
  /\ retLabel = ""
  /\ mvArgs = <<ZeroMatrix, ZeroVector>>
  /\ retVector = ZeroVector
  /\ useLinearAlgebra = TRUE
  /\ transformedVector = <<PlusZero, PlusZero, PlusZero>>

InitCore ==
  /\ InitCalls
  /\ InitPlatformFixed
  /\ InitPage

CallBuildRotationMatrix ==
  /\ fn = "none"
  /\ \E a \in RadInputs, b \in RadInputs, g \in RadInputs :
       /\ fn' = "buildRotationMatrix"
       /\ radArgs' = <<a, b, g>>
       /\ retMatrix' = buildRotationMatrix(a, b, g)
  /\ UNCHANGED <<degArgs, vecArgs, retAngles, moreCallVars, vectorCallVars,
                 platformVars, pageVars>>

CallBuildRotationMatrixFromAngles ==
  /\ fn = "none"
  /\ \E h \in ExactDeg, e \in ExactDeg, r \in ExactDeg :
       /\ fn' = "buildRotationMatrixFromAngles"
       /\ degArgs' = <<h, e, r>>
       /\ retMatrix' = buildRotationMatrixFromAngles(h, e, r)
  /\ UNCHANGED <<radArgs, vecArgs, retAngles, moreCallVars, vectorCallVars,
                 platformVars, pageVars>>

CallCalculateOrientationAngles ==
  /\ fn = "none"
  /\ \E n \in VecInputs, e \in VecInputs :
       /\ fn' = "calculateOrientationAngles"
       /\ vecArgs' = <<n, e>>
       /\ retAngles' = calculateOrientationAngles(n, e)
  /\ UNCHANGED <<radArgs, degArgs, retMatrix, moreCallVars, vectorCallVars,
                 platformVars, pageVars>>

bigCallVars == <<radArgs, degArgs, vecArgs, retMatrix, retAngles>>

CallNormalizeHeadingRange ==
  /\ fn = "none"
  /\ \E heading \in HeadingInputs :
       /\ fn' = "normalizeHeadingRange"
       /\ numArg' = heading
       /\ retNumber' = normalizeHeadingRange(heading)
  /\ UNCHANGED <<retLabel, mvArgs, retVector, bigCallVars, vectorCallVars,
                 platformVars, pageVars>>

CallGetCompassDirection ==
  /\ fn = "none"
  /\ \E heading \in HeadingInputs :
       /\ fn' = "getCompassDirection"
       /\ numArg' = heading
       /\ retLabel' = getCompassDirection(heading)
  /\ UNCHANGED <<retNumber, mvArgs, retVector, bigCallVars, vectorCallVars,
                 platformVars, pageVars>>

CallMultiplyMatrixVector ==
  /\ fn = "none"
  /\ \E matrix \in MatInputs, vector \in MulVecInputs :
       /\ fn' = "multiplyMatrixVector"
       /\ mvArgs' = <<matrix, vector>>
       /\ retVector' = multiplyMatrixVector(matrix, vector)
  /\ UNCHANGED <<numArg, retNumber, retLabel, bigCallVars, vectorCallVars,
                 platformVars, pageVars>>

\* the samples handed to compassHeading: one axis at an angle of the 3-4-5
\* triangle, the others at 0, so that every sine and cosine is 0, 1 or away
\* from zero in doubles (Math.sin(Math.PI) and Math.cos(Math.PI / 2) are not
\* 0 in doubles and would need their rounding residues)
TriangleTurns == { t[1] : t \in { r \in TrigTable : r[2] # 0 /\ r[3] # 0 } }
VectorSamples ==
  { <<a, 0, 0>> : a \in TriangleTurns \cup { 0 } }
    \cup { <<0, b, 0>> :
             b \in { t \in TriangleTurns : t < D180 }
                     \cup { t - D360 : t \in { r \in TriangleTurns : r > D180 } } }
    \cup { <<0, 0, g>> : g \in { 36870, 53130, -36870, -53130 } }

\* 'change' on linearAlgebraToggle, then compassHeading on a sample
CallCompassHeading ==
  /\ fn = "none"
  /\ \E checked \in BOOLEAN, s \in VectorSamples :
       /\ fn' = "compassHeading"
       /\ useLinearAlgebra' = checked
       /\ degArgs' = s
       /\ transformedVector' =
            compassHeadingSelected(checked, s[1], s[2], s[3]).transformedVector
       /\ retNumber' =
            compassHeadingSelected(checked, s[1], s[2], s[3]).heading
  /\ UNCHANGED <<radArgs, vecArgs, retMatrix, retAngles, numArg, retLabel,
                 mvArgs, retVector, platformVars, pageVars>>

NextCore ==
  \/ CallCompassHeading
  \/ CallBuildRotationMatrix
  \/ CallBuildRotationMatrixFromAngles
  \/ CallCalculateOrientationAngles
  \/ CallNormalizeHeadingRange
  \/ CallGetCompassDirection
  \/ CallMultiplyMatrixVector

SpecCore == InitCore /\ [][NextCore]_vars

\* ------------------------------------------------------------------------
\* main.ts (the page with the two 3D scenes): the handlers
\* ------------------------------------------------------------------------

Identity == << <<ONE, 0, 0>>, <<0, ONE, 0>>, <<0, 0, ONE>> >>

\* the angles an orientation event carries, in degrees: quarter turns in the
\* sensor's ranges and one angle of the 3-4-5 triangle per axis
AlphaVals == { 0, D90, D180, 3 * D90, 36870 }
BetaVals == { -D180, -D90, 0, D90, D180, 53130 }
GammaVals == { -D90, 0, D90, 36870 }
CompleteSamples ==
  { ev \in AlphaVals \X BetaVals \X GammaVals :
      Cardinality({ i \in 1..3 : ev[i] \in TriangleDeg }) <= 1 }
\* events with an axis the sensor cannot provide
IncompleteSamples ==
  { <<Null, Null, Null>>, <<Null, D90, 0>>, <<D90, Null, 0>>,
    <<D180, 53130, Null>> }
Events == CompleteSamples \cup IncompleteSamples

InitPlatform ==
  /\ doeDefined \in BOOLEAN
  /\ hasRequestPermission \in BOOLEAN
  /\ hasRequestPermission => doeDefined
  /\ canvasesPresent \in BOOLEAN

Init ==
  /\ InitCalls
  /\ InitPlatform
  /\ InitPage

\* window 'load': initializeApp
InitializeApp ==
  /\ ~loaded
  /\ loaded' = TRUE
  /\ IF ~doeDefined
     THEN /\ buttonText' = "Device Orientation Not Supported"
          /\ buttonDisabled' = TRUE
     ELSE UNCHANGED <<buttonText, buttonDisabled>>
  /\ UNCHANGED <<buttonHidden, awaiting, listening, permission,
                 registrations, rawTextVars, angleTextVars, tabVars,
                 sceneVars, handlerVars>>
  /\ UNCHANGED <<coreVars, platformVars, toggleVars>>

\* startListening, as the step of the handler that calls it
startListening ==
  IF ~doeDefined
  THEN /\ buttonText' = "Device Orientation Not Supported"
       /\ UNCHANGED <<listening, registrations, buttonHidden>>
  ELSE /\ listening' = TRUE
       /\ registrations' = registrations + 1
       /\ buttonHidden' = TRUE
       /\ UNCHANGED buttonText

RequestPermission_staysEnabled ==
  /\ loaded
  /\ ~buttonDisabled
  /\ ~buttonHidden
  /\ IF doeDefined /\ hasRequestPermission
     THEN /\ buttonText' = "Requesting permission..."
          /\ awaiting' = awaiting + 1
          /\ UNCHANGED <<buttonDisabled, listening, registrations,
                         buttonHidden>>
     ELSE /\ startListening
          /\ UNCHANGED <<buttonDisabled, awaiting>>
  /\ UNCHANGED <<loaded, permission, rawTextVars, angleTextVars, tabVars,
                 sceneVars, handlerVars>>
  /\ UNCHANGED <<coreVars, platformVars, toggleVars>>

\* a click on the request button: requestPermission up to its await, or to
\* its end when the platform needs no permission
RequestPermission ==
  /\ loaded
  /\ ~buttonDisabled
  /\ ~buttonHidden
  /\ IF doeDefined /\ hasRequestPermission
     THEN /\ buttonDisabled' = TRUE
          /\ buttonText' = "Requesting permission..."
          /\ awaiting' = awaiting + 1
          /\ UNCHANGED <<listening, registrations, buttonHidden>>
     ELSE /\ startListening
          /\ UNCHANGED <<buttonDisabled, awaiting>>
  /\ UNCHANGED <<loaded, permission, rawTextVars, angleTextVars, tabVars,
                 sceneVars, handlerVars>>
  /\ UNCHANGED <<coreVars, platformVars, toggleVars>>

PermissionSettles_listensOnDenial ==
  /\ awaiting > 0
  /\ awaiting' = awaiting - 1
  /\ \E answer \in { "granted", "denied", "rejected" } :
       /\ permission' = answer
       /\ CASE answer = "granted" ->
                 /\ startListening
                 /\ UNCHANGED buttonDisabled
            [] answer = "denied" ->
                 /\ startListening
                 /\ buttonDisabled' = FALSE
            [] answer = "rejected" ->
                 /\ buttonText' = "Error - Try Again"
                 /\ buttonDisabled' = FALSE
                 /\ UNCHANGED <<listening, registrations, buttonHidden>>
  /\ UNCHANGED <<loaded, rawTextVars, angleTextVars, tabVars, sceneVars,
                 handlerVars>>
  /\ UNCHANGED <<coreVars, platformVars, toggleVars>>

\* the promise of DeviceOrientationEvent.requestPermission() settles:
\* requestPermission resumes after its await
PermissionSettles ==
  /\ awaiting > 0
  /\ awaiting' = awaiting - 1
  /\ \E answer \in { "granted", "denied", "rejected" } :
       /\ permission' = answer
       /\ CASE answer = "granted" ->
                 /\ startListening
                 /\ UNCHANGED buttonDisabled
            [] answer = "denied" ->
                 /\ buttonText' = "Permission Denied - Enable in Settings"
                 /\ buttonDisabled' = FALSE
                 /\ UNCHANGED <<listening, registrations, buttonHidden>>
            [] answer = "rejected" ->
                 /\ buttonText' = "Error - Try Again"
                 /\ buttonDisabled' = FALSE
                 /\ UNCHANGED <<listening, registrations, buttonHidden>>
  /\ UNCHANGED <<loaded, rawTextVars, angleTextVars, tabVars, sceneVars,
                 handlerVars>>
  /\ UNCHANGED <<coreVars, platformVars, toggleVars>>

updateRotation_accumulates(scene, rotationMatrix) ==
  [scene EXCEPT !.rotation = multiplyMatrices(scene.rotation, rotationMatrix)]

\* VisualizationScene.updateRotation
updateRotation(scene, rotationMatrix) ==
  [scene EXCEPT !.rotation = rotationMatrix]

\* the local constants of handleOrientation on a complete event
handleOrientationLocals(event) ==
  LET alphaRad == TimesPiOver180(event[1])
      betaRad == TimesPiOver180(event[2])
      gammaRad == TimesPiOver180(event[3])
      R == buildRotationMatrix(alphaRad, betaRad, gammaRad)
      northVector == multiplyMatrixVector(R, <<0, 0, -ONE>>)
      eastVector == multiplyMatrixVector(R, <<ONE, 0, 0>>)
      a == calculateOrientationAngles(northVector, eastVector)
  IN  [ R |-> R,
        northVector |-> northVector,
        eastVector |-> eastVector,
        angles |-> a,
        normalizedHeading |-> normalizeHeadingRange(a.heading),
        extractedMatrix |->
          buildRotationMatrixFromAngles(a.heading, a.elevation, a.roll) ]

\* the same, computed once for every complete event of the model
LocalsTable ==
  { <<event, handleOrientationLocals(event)>> : event \in CompleteSamples }
LocalsOf(event) == (CHOOSE row \in LocalsTable : row[1] = event)[2]
\* on an event with a null axis the local constants are not computed
NoLocals ==
  [ R |-> ZeroMatrix, northVector |-> ZeroVector, eastVector |-> ZeroVector,
    angles |-> NoAngles, normalizedHeading |-> 0,
    extractedMatrix |-> ZeroMatrix ]
\* the events handleOrientation can receive, each with its local constants
EventTable ==
  LocalsTable \cup { <<event, NoLocals>> : event \in IncompleteSamples }

\* the calls handleOrientation makes on a complete event: up to the
\* extraction, for the display of the three angles, and for the scenes
callsToExtract ==
  << "formatValue", "formatValue", "formatValue", "buildRotationMatrix",
     "multiplyMatrixVector", "multiplyMatrixVector",
     "calculateOrientationAngles", "normalizeHeadingRange" >>
callsToDisplay(a, normalizedHeading) ==
  (IF ~IsNaN(normalizedHeading)
   THEN << "formatValue", "getCompassDirection" >> ELSE << >>)
  \o (IF ~IsNaN(a.elevation) THEN << "formatValue" >> ELSE << >>)
  \o (IF ~IsNaN(a.roll) THEN << "formatValue" >> ELSE << >>)
callsToScenes ==
  << "updateRotation", "buildRotationMatrixFromAngles", "updateRotation" >>

HandleOrientation_clearsOnNull ==
  /\ listening
  /\ \E row \in EventTable :
       LET event == row[1]
           alpha == event[1]
           beta == event[2]
           gamma == event[3]
           l == row[2]
       IN  /\ sample' = event
           /\ alphaText' = formatValue(alpha)
           /\ betaText' = formatValue(beta)
           /\ gammaText' = formatValue(gamma)
           /\ IF alpha # Null /\ beta # Null /\ gamma # Null
              THEN /\ angles' = l.angles
                   /\ IF ~IsNaN(l.normalizedHeading)
                      THEN /\ headingText' =
                                WithDegreeSign(formatValue(l.normalizedHeading))
                           /\ directionText' =
                                Literal(getCompassDirection(l.angles.heading))
                      ELSE /\ headingText' = Literal("--")
                           /\ directionText' = Literal("Tilt device")
                   /\ elevationText' =
                        IF ~IsNaN(l.angles.elevation)
                        THEN WithDegreeSign(formatValue(l.angles.elevation))
                        ELSE Literal("--")
                   /\ rollText' =
                        IF ~IsNaN(l.angles.roll)
                        THEN WithDegreeSign(formatValue(l.angles.roll))
                        ELSE Literal("--")
                   /\ IF deviceScene.made /\ extractedScene.made
                      THEN /\ deviceScene' = updateRotation(deviceScene, l.R)
                           /\ extractedScene' =
                                updateRotation(extractedScene,
                                               l.extractedMatrix)
                           /\ branch' = "complete, scenes updated"
                           /\ invoked' =
                                callsToExtract
                                  \o callsToDisplay(l.angles,
                                                    l.normalizedHeading)
                                  \o callsToScenes
                      ELSE /\ UNCHANGED <<deviceScene, extractedScene>>
                           /\ branch' = "complete"
                           /\ invoked' =
                                callsToExtract
                                  \o callsToDisplay(l.angles,
                                                    l.normalizedHeading)
              ELSE /\ angles' = NoAngles
                   /\ branch' = "incomplete"
                   /\ invoked' = << "formatValue", "formatValue",
                                    "formatValue" >>
                   /\ headingText' = Literal("--")
                   /\ directionText' = Literal("--")
                   /\ elevationText' = Literal("--")
                   /\ rollText' = Literal("--")
                   /\ UNCHANGED <<deviceScene, extractedScene>>
  /\ UNCHANGED <<loaded, buttonVars, tabVars, resizeListeners>>
  /\ UNCHANGED <<coreVars, platformVars, toggleVars>>

HandleOrientation_staleAngles ==
  /\ listening
  /\ \E row \in EventTable :
       LET event == row[1]
           alpha == event[1]
           beta == event[2]
           gamma == event[3]
           l == row[2]
       IN  /\ sample' = event
           /\ alphaText' = formatValue(alpha)
           /\ betaText' = formatValue(beta)
           /\ gammaText' = formatValue(gamma)
           /\ IF alpha # Null /\ beta # Null /\ gamma # Null
              THEN /\ angles' = l.angles
                   /\ IF ~IsNaN(l.normalizedHeading)
                      THEN /\ headingText' =
                                WithDegreeSign(formatValue(l.normalizedHeading))
                           /\ directionText' =
                                Literal(getCompassDirection(l.angles.heading))
                      ELSE /\ headingText' = Literal("--")
                           /\ directionText' = Literal("Tilt device")
                   /\ elevationText' =
                        IF ~IsNaN(l.angles.elevation)
                        THEN WithDegreeSign(formatValue(l.angles.elevation))
                        ELSE Literal("--")
                   /\ rollText' =
                        IF ~IsNaN(l.angles.roll)
                        THEN WithDegreeSign(formatValue(l.angles.roll))
                        ELSE Literal("--")
                   /\ IF deviceScene.made /\ extractedScene.made
                      THEN /\ deviceScene' = updateRotation(deviceScene, l.R)
                           /\ extractedScene' =
                                updateRotation(extractedScene,
                                  buildRotationMatrixFromAngles(
                                    angles.heading, angles.elevation,
                                    angles.roll))
                           /\ branch' = "complete, scenes updated"
                           /\ invoked' =
                                callsToExtract
                                  \o callsToDisplay(l.angles,
                                                    l.normalizedHeading)
                                  \o callsToScenes
                      ELSE /\ UNCHANGED <<deviceScene, extractedScene>>
                           /\ branch' = "complete"
                           /\ invoked' =
                                callsToExtract
                                  \o callsToDisplay(l.angles,
                                                    l.normalizedHeading)
              ELSE /\ angles' = NoAngles
                   /\ branch' = "incomplete"
                   /\ invoked' = << "formatValue", "formatValue",
                                    "formatValue" >>
                   /\ UNCHANGED <<angleTextVars, deviceScene, extractedScene>>
  /\ UNCHANGED <<loaded, buttonVars, tabVars, resizeListeners>>
  /\ UNCHANGED <<coreVars, platformVars, toggleVars>>

\* a deviceorientation event: handleOrientation
HandleOrientation ==
  /\ listening
  /\ \E row \in EventTable :
       LET event == row[1]
           alpha == event[1]
           beta == event[2]
           gamma == event[3]
           l == row[2]
       IN  /\ sample' = event
           /\ alphaText' = formatValue(alpha)
           /\ betaText' = formatValue(beta)
           /\ gammaText' = formatValue(gamma)
           /\ IF alpha # Null /\ beta # Null /\ gamma # Null
              THEN /\ angles' = l.angles
                   /\ IF ~IsNaN(l.normalizedHeading)
                      THEN /\ headingText' =
                                WithDegreeSign(formatValue(l.normalizedHeading))
                           /\ directionText' =
                                Literal(getCompassDirection(l.angles.heading))
                      ELSE /\ headingText' = Literal("--")
                           /\ directionText' = Literal("Tilt device")
                   /\ elevationText' =
                        IF ~IsNaN(l.angles.elevation)
                        THEN WithDegreeSign(formatValue(l.angles.elevation))
                        ELSE Literal("--")
                   /\ rollText' =
                        IF ~IsNaN(l.angles.roll)
                        THEN WithDegreeSign(formatValue(l.angles.roll))
                        ELSE Literal("--")
                   /\ IF deviceScene.made /\ extractedScene.made
                      THEN /\ deviceScene' = updateRotation(deviceScene, l.R)
                           /\ extractedScene' =
                                updateRotation(extractedScene,
                                               l.extractedMatrix)
                           /\ branch' = "complete, scenes updated"
                           /\ invoked' =
                                callsToExtract
                                  \o callsToDisplay(l.angles,
                                                    l.normalizedHeading)
                                  \o callsToScenes
                      ELSE /\ UNCHANGED <<deviceScene, extractedScene>>
                           /\ branch' = "complete"
                           /\ invoked' =
                                callsToExtract
                                  \o callsToDisplay(l.angles,
                                                    l.normalizedHeading)
              ELSE /\ angles' = NoAngles
                   /\ branch' = "incomplete"
                   /\ invoked' = << "formatValue", "formatValue",
                                    "formatValue" >>
                   /\ UNCHANGED <<angleTextVars, deviceScene, extractedScene>>
  /\ UNCHANGED <<loaded, buttonVars, tabVars, resizeListeners>>
  /\ UNCHANGED <<coreVars, platformVars, toggleVars>>

\* initialize3DScenes, as the step of switchTab that calls it
initialize3DScenes ==
  IF canvasesPresent
  THEN /\ deviceScene' = [made |-> TRUE, rotation |-> Identity]
       /\ extractedScene' = [made |-> TRUE, rotation |-> Identity]
       /\ resizeListeners' = resizeListeners + 1
  ELSE UNCHANGED sceneVars

SwitchTab_initializesEveryTime ==
  /\ loaded
  /\ \E name \in Tabs :
       /\ tabName' = name
       /\ activeButtons' = { b \in Tabs : b = name }
       /\ activeContents' = { c \in Tabs : c = name }
       /\ IF name = "visualization"
          THEN initialize3DScenes
          ELSE UNCHANGED sceneVars
  /\ UNCHANGED <<loaded, buttonVars, rawTextVars, angleTextVars, handlerVars>>
  /\ UNCHANGED <<coreVars, platformVars, toggleVars>>

SwitchTab_keepsOld ==
  /\ loaded
  /\ \E name \in Tabs :
       /\ tabName' = name
       /\ activeButtons' = { b \in Tabs : b = name }
       /\ activeContents' = activeContents \cup { c \in Tabs : c = name }
       /\ IF name = "visualization" /\ ~deviceScene.made
             /\ ~extractedScene.made
          THEN initialize3DScenes
          ELSE UNCHANGED sceneVars
  /\ UNCHANGED <<loaded, buttonVars, rawTextVars, angleTextVars, handlerVars>>
  /\ UNCHANGED <<coreVars, platformVars, toggleVars>>

\* a click on a tab button: switchTab
SwitchTab ==
  /\ loaded
  /\ \E name \in Tabs :
       /\ tabName' = name
       /\ activeButtons' = { b \in Tabs : b = name }
       /\ activeContents' = { c \in Tabs : c = name }
       /\ IF name = "visualization" /\ ~deviceScene.made
             /\ ~extractedScene.made
          THEN initialize3DScenes
          ELSE UNCHANGED sceneVars
  /\ UNCHANGED <<loaded, buttonVars, rawTextVars, angleTextVars, handlerVars>>
  /\ UNCHANGED <<coreVars, platformVars, toggleVars>>

Next ==
  \/ InitializeApp
  \/ RequestPermission
  \/ PermissionSettles
  \/ HandleOrientation
  \/ SwitchTab

Spec == Init /\ [][Next]_vars

\* ------------------------------------------------------------------------
\* src/src/main.ts: the earlier page, with the normalization toggle
\* ------------------------------------------------------------------------

\* Math.atan(p / q) in degrees: 0 / 0 is NaN, p / 0 is an infinity of the
\* sign of p, whose arctangent is a quarter turn
AtanOfQuotient(p, q) ==
  IF q = 0
  THEN IF p = 0 THEN NaN ELSE IF p > 0 THEN D90 ELSE -D90
  ELSE Times180OverPi(Atan2(IF q < 0 THEN -p ELSE p, Abs(q)))

\* compassHeading; compassHeadingValue is kept in degrees, so Math.PI is 180
\* compassHeading with a half turn added where the code adds a whole turn
compassHeading_halfTurnOnly(alpha, beta, gamma) ==
  LET alphaRad == TimesPiOver180(alpha)
      betaRad == TimesPiOver180(beta)
      gammaRad == TimesPiOver180(gamma)
      cA == Cos(alphaRad)
      sA == Sin(alphaRad)
      sB == Sin(betaRad)
      cG == Cos(gammaRad)
      sG == Sin(gammaRad)
      rA == -Mul(cA, sG) - Mul(Mul(sA, sB), cG)
      rB == -Mul(sA, sG) + Mul(Mul(cA, sB), cG)
      compassHeadingValue == AtanOfQuotient(rA, rB)
  IN  IF IsNaN(compassHeadingValue) THEN NaN
      ELSE IF rB < 0 THEN compassHeadingValue + D180
      ELSE IF rA < 0 THEN compassHeadingValue + D180
      ELSE compassHeadingValue

compassHeading(alpha, beta, gamma) ==
  LET alphaRad == TimesPiOver180(alpha)
      betaRad == TimesPiOver180(beta)
      gammaRad == TimesPiOver180(gamma)
      cA == Cos(alphaRad)
      sA == Sin(alphaRad)
      sB == Sin(betaRad)
      cG == Cos(gammaRad)
      sG == Sin(gammaRad)
      rA == -Mul(cA, sG) - Mul(Mul(sA, sB), cG)
      rB == -Mul(sA, sG) + Mul(Mul(cA, sB), cG)
      compassHeadingValue == AtanOfQuotient(rA, rB)
  IN  IF IsNaN(compassHeadingValue) THEN NaN
      ELSE IF rB < 0 THEN compassHeadingValue + D180
      ELSE IF rA < 0 THEN compassHeadingValue + D360
      ELSE compassHeadingValue

\* the events of this page: Math.sin of +-180 degrees is not exactly 0 in
\* doubles, so events with such a beta are left to samples whose sine is
\* exact
ToggleSamples == { ev \in CompleteSamples : Abs(ev[2]) # D180 }
ToggleEvents == ToggleSamples \cup IncompleteSamples

\* compassHeading, computed once for every complete event of the model
CompassTable ==
  { <<event, compassHeading(event[1], event[2], event[3])>> :
      event \in ToggleSamples }
CompassHeadingOf(event) ==
  (CHOOSE row \in CompassTable : row[1] = event)[2]

\* what this page does not have or never touches
toggleFrame ==
  <<coreVars, platformVars, loaded, buttonVars, elevationText, rollText,
    tabVars, sceneVars, angles>>

\* window 'load': initializeApp
ToggleInitializeApp ==
  /\ ~loaded
  /\ loaded' = TRUE
  /\ IF ~doeDefined
     THEN /\ statusText' =
               "Device orientation is not supported on this device/browser."
          /\ statusError' = TRUE
          /\ buttonDisabled' = TRUE
     ELSE IF ~hasRequestPermission
     THEN /\ statusText' =
               "Click the button to start monitoring device orientation."
          /\ UNCHANGED <<statusError, buttonDisabled>>
     ELSE UNCHANGED <<statusText, statusError, buttonDisabled>>
  /\ UNCHANGED <<buttonHidden, buttonText, awaiting, listening, permission,
                 registrations, normalizeHeading, permissionGranted,
                 lastHeading>>
  /\ UNCHANGED <<coreVars, platformVars, rawTextVars, angleTextVars, tabVars,
                 sceneVars, handlerVars>>

\* startListening, as the step of requestPermission that calls it
ToggleStartListening ==
  IF ~doeDefined
  THEN /\ statusText' = "Device orientation not supported on this device."
       /\ statusError' = TRUE
       /\ UNCHANGED <<listening, registrations, permissionGranted,
                      buttonHidden>>
  ELSE /\ listening' = TRUE
       /\ registrations' = registrations + 1
       /\ permissionGranted' = TRUE
       /\ buttonHidden' = TRUE
       /\ statusText' = "Listening to device orientation..."
       /\ statusError' = FALSE

\* a click on the request button: requestPermission up to its await, or to
\* its end when the platform needs no permission
ToggleRequestPermission ==
  /\ loaded
  /\ ~buttonDisabled
  /\ ~buttonHidden
  /\ IF doeDefined /\ hasRequestPermission
     THEN /\ buttonDisabled' = TRUE
          /\ statusText' = "Requesting permission..."
          /\ awaiting' = awaiting + 1
          /\ UNCHANGED <<listening, registrations, permissionGranted,
                         buttonHidden, statusError>>
     ELSE /\ ToggleStartListening
          /\ UNCHANGED <<buttonDisabled, awaiting>>
  /\ UNCHANGED <<loaded, buttonText, permission, normalizeHeading,
                 lastHeading>>
  /\ UNCHANGED <<coreVars, platformVars, rawTextVars, angleTextVars, tabVars,
                 sceneVars, handlerVars>>

\* the promise of DeviceOrientationEvent.requestPermission() settles
TogglePermissionSettles ==
  /\ awaiting > 0
  /\ awaiting' = awaiting - 1
  /\ \E answer \in { "granted", "denied", "rejected" } :
       /\ permission' = answer
       /\ CASE answer = "granted" ->
                 /\ ToggleStartListening
                 /\ UNCHANGED buttonDisabled
            [] answer = "denied" ->
                 /\ statusText' =
                      "Permission denied. Please allow orientation access in settings."
                 /\ statusError' = TRUE
                 /\ buttonDisabled' = FALSE
                 /\ UNCHANGED <<listening, registrations, permissionGranted,
                                buttonHidden>>
            [] answer = "rejected" ->
                 /\ statusText' = "Error: message"
                 /\ statusError' = TRUE
                 /\ buttonDisabled' = FALSE
                 /\ UNCHANGED <<listening, registrations, permissionGranted,
                                buttonHidden>>
  /\ UNCHANGED <<loaded, buttonText, normalizeHeading, lastHeading>>
  /\ UNCHANGED <<coreVars, platformVars, rawTextVars, angleTextVars, tabVars,
                 sceneVars, handlerVars>>

\* 'change' on the normalize toggle
ToggleChange ==
  /\ loaded
  /\ \E checked \in BOOLEAN : normalizeHeading' = checked
  /\ UNCHANGED <<permissionGranted, statusText, statusError, lastHeading>>
  /\ UNCHANGED <<coreVars, platformVars, loaded, buttonVars, rawTextVars,
                 angleTextVars, tabVars, sceneVars, handlerVars>>

ToggleHandleOrientation_noNaNTest ==
  /\ listening
  /\ \E event \in ToggleEvents :
       LET alpha == event[1]
           beta == event[2]
           gamma == event[3]
           heading == CompassHeadingOf(event)
           displayHeading ==
             IF normalizeHeading /\ heading > D180
             THEN heading - D360 ELSE heading
       IN  /\ sample' = event
           /\ alphaText' = formatValue(alpha)
           /\ betaText' = formatValue(beta)
           /\ gammaText' = formatValue(gamma)
           /\ IF alpha # Null /\ beta # Null /\ gamma # Null
              THEN /\ lastHeading' = heading
                   /\ branch' = "complete"
                   /\ IF TRUE
                      THEN /\ headingText' =
                                WithDegreeSign(formatValue(displayHeading))
                           /\ directionText' =
                                Literal(getCompassDirection(heading))
                           /\ invoked' =
                                << "formatValue", "formatValue",
                                   "formatValue", "compassHeading",
                                   "formatValue", "getCompassDirection" >>
                      ELSE /\ headingText' = Literal("--")
                           /\ directionText' = Literal("Tilt device")
                           /\ invoked' =
                                << "formatValue", "formatValue",
                                   "formatValue", "compassHeading" >>
              ELSE /\ branch' = "incomplete"
                   /\ invoked' = << "formatValue", "formatValue",
                                    "formatValue" >>
                   /\ UNCHANGED <<lastHeading, headingText, directionText>>
  /\ UNCHANGED <<normalizeHeading, permissionGranted, statusText, statusError>>
  /\ UNCHANGED toggleFrame

ToggleHandleOrientation_labelFromDisplay ==
  /\ listening
  /\ \E event \in ToggleEvents :
       LET alpha == event[1]
           beta == event[2]
           gamma == event[3]
           heading == CompassHeadingOf(event)
           displayHeading ==
             IF normalizeHeading /\ heading > D180
             THEN heading - D360 ELSE heading
       IN  /\ sample' = event
           /\ alphaText' = formatValue(alpha)
           /\ betaText' = formatValue(beta)
           /\ gammaText' = formatValue(gamma)
           /\ IF alpha # Null /\ beta # Null /\ gamma # Null
              THEN /\ lastHeading' = heading
                   /\ branch' = "complete"
                   /\ IF ~IsNaN(heading)
                      THEN /\ headingText' =
                                WithDegreeSign(formatValue(displayHeading))
                           /\ directionText' =
                                Literal(getCompassDirection(displayHeading))
                           /\ invoked' =
                                << "formatValue", "formatValue",
                                   "formatValue", "compassHeading",
                                   "formatValue", "getCompassDirection" >>
                      ELSE /\ headingText' = Literal("--")
                           /\ directionText' = Literal("Tilt device")
                           /\ invoked' =
                                << "formatValue", "formatValue",
                                   "formatValue", "compassHeading" >>
              ELSE /\ branch' = "incomplete"
                   /\ invoked' = << "formatValue", "formatValue",
                                    "formatValue" >>
                   /\ UNCHANGED <<lastHeading, headingText, directionText>>
  /\ UNCHANGED <<normalizeHeading, permissionGranted, statusText, statusError>>
  /\ UNCHANGED toggleFrame

\* a deviceorientation event: handleOrientation of src/src/main.ts
ToggleHandleOrientation ==
  /\ listening
  /\ \E event \in ToggleEvents :
       LET alpha == event[1]
           beta == event[2]
           gamma == event[3]
           heading == CompassHeadingOf(event)
           displayHeading ==
             IF normalizeHeading /\ heading > D180
             THEN heading - D360 ELSE heading
       IN  /\ sample' = event
           /\ alphaText' = formatValue(alpha)
           /\ betaText' = formatValue(beta)
           /\ gammaText' = formatValue(gamma)
           /\ IF alpha # Null /\ beta # Null /\ gamma # Null
              THEN /\ lastHeading' = heading
                   /\ branch' = "complete"
                   /\ IF ~IsNaN(heading)
                      THEN /\ headingText' =
                                WithDegreeSign(formatValue(displayHeading))
                           /\ directionText' =
                                Literal(getCompassDirection(heading))
                           /\ invoked' =
                                << "formatValue", "formatValue",
                                   "formatValue", "compassHeading",
                                   "formatValue", "getCompassDirection" >>
                      ELSE /\ headingText' = Literal("--")
                           /\ directionText' = Literal("Tilt device")
                           /\ invoked' =
                                << "formatValue", "formatValue",
                                   "formatValue", "compassHeading" >>
              ELSE /\ branch' = "incomplete"
                   /\ invoked' = << "formatValue", "formatValue",
                                    "formatValue" >>
                   /\ UNCHANGED <<lastHeading, headingText, directionText>>
  /\ UNCHANGED <<normalizeHeading, permissionGranted, statusText, statusError>>
  /\ UNCHANGED toggleFrame

NextToggle ==
  \/ ToggleInitializeApp
  \/ ToggleRequestPermission
  \/ TogglePermissionSettles
  \/ ToggleChange
  \/ ToggleHandleOrientation

SpecToggle == Init /\ [][NextToggle]_vars

\* ------------------------------------------------------------------------
\* Properties of the rotation matrices
\* ------------------------------------------------------------------------

\* dot product of two fixed-point vectors without rounding, scaled ONE * ONE
ExactDot(u, v) == u[1] * v[1] + u[2] * v[2] + u[3] * v[3]
Column(M, c) == <<M[1][c], M[2][c], M[3][c]>>

RowsOrthonormal(M) ==
  \A i \in 1..3, j \in 1..3 :
    ExactDot(M[i], M[j]) = IF i = j THEN ONE * ONE ELSE 0

ColumnsOrthonormal(M) ==
  \A i \in 1..3, j \in 1..3 :
    ExactDot(Column(M, i), Column(M, j)) = IF i = j THEN ONE * ONE ELSE 0

\* determinant by expansion along the first row
Det(M) ==
  LET c1 == RoundDiv(M[2][2] * M[3][3] - M[2][3] * M[3][2], ONE)
      c2 == RoundDiv(M[2][1] * M[3][3] - M[2][3] * M[3][1], ONE)
      c3 == RoundDiv(M[2][1] * M[3][2] - M[2][2] * M[3][1], ONE)
  IN  RoundDiv(M[1][1] * c1 - M[1][2] * c2 + M[1][3] * c3, ONE)

QuarterTurnZ == << <<0, -ONE, 0>>, <<ONE, 0, 0>>, <<0, 0, ONE>> >>

\* the arguments are degrees converted to radians, with exact sine and cosine
ExactRadArgs == \A i \in 1..3 : radArgs[i].u = "pi180"
BuiltFrom(a, b, g) ==
  /\ fn = "buildRotationMatrix"
  /\ radArgs = <<a, b, g>>

\* C1: for angles whose sines and cosines are exact, the rows of the matrix
\* returned by buildRotationMatrix are unit-length and mutually orthogonal
\* and its determinant is +1.
C1_RowsOrthonormalDetOne ==
  (fn = "buildRotationMatrix" /\ ExactRadArgs) =>
    (RowsOrthonormal(retMatrix) /\ Det(retMatrix) = ONE)

C1_Witness ==
  BuiltFrom(TimesPiOver180(D90), TimesPiOver180(53130), TimesPiOver180(-D90))

\* the elementary rotations about Z, X and Y
Rz(a) ==
  << <<Cos(a), -Sin(a), 0>>, <<Sin(a), Cos(a), 0>>, <<0, 0, ONE>> >>
Rx(b) ==
  << <<ONE, 0, 0>>, <<0, Cos(b), -Sin(b)>>, <<0, Sin(b), Cos(b)>> >>
Ry(g) ==
  << <<Cos(g), 0, Sin(g)>>, <<0, ONE, 0>>, <<-Sin(g), 0, Cos(g)>> >>

SameMatrix(M, N) == \A i \in 1..3, j \in 1..3 : M[i][j] = N[i][j]

\* C7: the nine entries of buildRotationMatrix(alpha, beta, gamma) are those
\* of the product Rz(alpha) * Rx(beta) * Ry(gamma).
C7_IsZXY ==
  (fn = "buildRotationMatrix" /\ ExactRadArgs) =>
    SameMatrix(retMatrix,
               multiplyMatrices(multiplyMatrices(Rz(radArgs[1]),
                                                 Rx(radArgs[2])),
                                Ry(radArgs[3])))

C7_Witness ==
  BuiltFrom(TimesPiOver180(36870), TimesPiOver180(D90), TimesPiOver180(53130))

\* C8: buildRotationMatrix(0, 0, 0) is the identity matrix.
C8_ZeroIsIdentity ==
  (fn = "buildRotationMatrix" /\ \A i \in 1..3 : radArgs[i].n = 0) =>
    retMatrix = Identity

C8_Witness == BuiltFrom(TimesPiOver180(0), TimesPiOver180(0), TimesPiOver180(0))

\* C6 as stated: buildRotationMatrix takes degrees, so that
\* buildRotationMatrix(90, 0, 0) is the quarter turn about Z and
\* buildRotationMatrix(360, 0, 0) is the identity.
C6_TakesDegrees ==
  /\ BuiltFrom(Plain(D90), Plain(0), Plain(0)) => retMatrix = QuarterTurnZ
  /\ BuiltFrom(Plain(D360), Plain(0), Plain(0)) => retMatrix = Identity

\* C6 amended: buildRotationMatrix takes radians; on 90 * (Math.PI / 180),
\* 0, 0 it returns the quarter turn about Z and on 360 * (Math.PI / 180),
\* 0, 0 the identity.
C6_TakesRadians ==
  /\ BuiltFrom(TimesPiOver180(D90), TimesPiOver180(0), TimesPiOver180(0))
       => retMatrix = QuarterTurnZ
  /\ BuiltFrom(TimesPiOver180(D360), TimesPiOver180(0), TimesPiOver180(0))
       => retMatrix = Identity

C6_Witness ==
  BuiltFrom(TimesPiOver180(D90), TimesPiOver180(0), TimesPiOver180(0))

\* C5: buildRotationMatrixFromAngles(heading, elevation, roll) is the product
\* R(roll) * R(elevation) * R(heading), in that order.
C5_RollElevationHeading ==
  fn = "buildRotationMatrixFromAngles" =>
    SameMatrix(retMatrix,
               multiplyMatrices(multiplyMatrices(RotRoll(degArgs[3]),
                                                 RotElevation(degArgs[2])),
                                RotHeading(degArgs[1])))

\* C9: the matrix returned by buildRotationMatrixFromAngles has unit-length
\* mutually orthogonal rows and columns and determinant +1.
C9_FromAnglesOrthonormal ==
  fn = "buildRotationMatrixFromAngles" =>
    /\ RowsOrthonormal(retMatrix)
    /\ ColumnsOrthonormal(retMatrix)
    /\ Det(retMatrix) = ONE

C9_Witness ==
  /\ fn = "buildRotationMatrixFromAngles"
  /\ degArgs = <<D90, 36870, -53130>>

\* ------------------------------------------------------------------------
\* Properties of the angle extraction
\* ------------------------------------------------------------------------

Horizontal0(v) == v[1] = 0 /\ v[2] = 0

\* C4: calculateOrientationAngles returns a NaN heading when the north vector
\* has x = 0 and y = 0, and a NaN roll when the east vector has x = 0 and
\* y = 0.
C4_DegenerateIsNaN ==
  fn = "calculateOrientationAngles" =>
    /\ Horizontal0(vecArgs[1]) => IsNaN(retAngles.heading)
    /\ Horizontal0(vecArgs[2]) => IsNaN(retAngles.roll)

\* the compass bearing of the four horizontal axis directions
AxisHeading(x, y) ==
  IF x = 0 /\ y > 0 THEN 0
  ELSE IF x > 0 /\ y = 0 THEN D90
  ELSE IF x = 0 /\ y < 0 THEN D180
  ELSE 3 * D90

CallsWithNorthXY(p) ==
  { calculateOrientationAngles(<<p[1], p[2], z>>, e) :
      z \in HeightVals, e \in VecInputs }
HeadingsByNorthXY ==
  { <<p, { r.heading : r \in CallsWithNorthXY(p) }>> : p \in HorizPairs }
HeadingsAt(x, y) ==
  (CHOOSE row \in HeadingsByNorthXY : row[1] = <<x, y>>)[2]

\* C11: the heading returned by calculateOrientationAngles depends only on
\* the x and y of the north vector: every call whose north vector has the
\* same x and y, whatever its z and whatever the east vector, returns the
\* heading this call returned.
C11_HeadingOnlyFromNorthXY ==
  fn = "calculateOrientationAngles" =>
    HeadingsAt(vecArgs[1][1], vecArgs[1][2]) = { retAngles.heading }

C11_Witness ==
  /\ fn = "calculateOrientationAngles"
  /\ vecArgs = << <<600, 800, 5000>>, <<0, -1000, 0>> >>
  /\ retAngles.heading = 36870
  /\ Cardinality(CallsWithNorthXY(<<600, 800>>)) > 1

\* x^2 + y^2 of a vector, scaled ONE * ONE
SquaredRadius(v) == v[1] * v[1] + v[2] * v[2]

\* the elevations of all calls whose north vector has squared horizontal
\* radius rr and height z
ElevationsByRadiusAndHeight ==
  { <<rr, z, { calculateOrientationAngles(<<p[1], p[2], z>>, e).elevation :
                 p \in { q \in HorizPairs : SquaredRadius(q) = rr },
                 e \in VecInputs }>> :
      rr \in { SquaredRadius(q) : q \in HorizPairs }, z \in HeightVals }
ElevationsAt(rr, z) ==
  (CHOOSE row \in ElevationsByRadiusAndHeight :
     row[1] = rr /\ row[2] = z)[3]

\* C12: two north vectors with the same z and the same x^2 + y^2 yield the
\* same elevation; (5,0,5), (0,5,5) and (3,4,5) all yield 45 degrees.
C12_ElevationIgnoresDirection ==
  fn = "calculateOrientationAngles" =>
    /\ ElevationsAt(SquaredRadius(vecArgs[1]), vecArgs[1][3])
         = { retAngles.elevation }
    /\ vecArgs[1] \in { <<5000, 0, 5000>>, <<0, 5000, 5000>>,
                        <<3000, 4000, 5000>> }
         => retAngles.elevation = 45000

C12_Witness ==
  /\ fn = "calculateOrientationAngles"
  /\ vecArgs[1] = <<3000, 4000, 5000>>
  /\ vecArgs[2] = <<0, 0, 1000>>
  /\ retAngles.elevation = 45000

\* the rolls calculateOrientationAngles returns over all vector pairs
RollsAttained ==
  { calculateOrientationAngles(n, e).roll :
      n \in { <<0, 1000, 0>> }, e \in VecInputs }
\* bank angles of the documented range of the roll, -180 to +180 degrees
DocumentedRolls == { -D180, -143130, -D90, -45000, 0, 45000, D90, 143130, D180 }

AllNaN(a) == IsNaN(a.heading) /\ IsNaN(a.elevation) /\ IsNaN(a.roll)
InDocumentedRanges(a) ==
  /\ a.heading >= 0 /\ a.heading < D360
  /\ a.elevation >= -D90 /\ a.elevation <= D90
  /\ a.roll >= -D180 /\ a.roll <= D180

\* C13: calculateOrientationAngles returns the degenerate marker or a
\* heading in [0,360), an elevation in [-90,90] and a roll in [-180,180],
\* and every roll of the documented range [-180,180] is attained.
C13_RangesAndEveryRollAttained ==
  fn = "calculateOrientationAngles" =>
    /\ AllNaN(retAngles) \/ InDocumentedRanges(retAngles)
    /\ \A r \in DocumentedRolls : r \in RollsAttained

\* ------------------------------------------------------------------------
\* Properties of the whole pipeline of handleOrientation
\* ------------------------------------------------------------------------

HandledComplete == branch \in { "complete", "complete, scenes updated" }

HorizontalRadius(v) == Sqrt(Mul(v[1], v[1]) + Mul(v[2], v[2]))

\* the sample of the last event is away from gimbal lock: cos(beta) is not 0
\* and neither transformed reference vector points straight up or down
AwayFromGimbalLock ==
  /\ Cos(TimesPiOver180(sample[2])) # 0
  /\ HorizontalRadius(multiplyMatrixVector(deviceScene.rotation,
                                           <<0, 0, -ONE>>)) # 0
  /\ HorizontalRadius(multiplyMatrixVector(deviceScene.rotation,
                                           <<ONE, 0, 0>>)) # 0

\* C2: away from gimbal lock, the matrix rebuilt from the extracted angles
\* (the rotation of the extracted scene) transforms (0,0,-1) and (1,0,0) to
\* the same vectors as the device matrix (the rotation of the device scene).
C2_RoundTrip ==
  (branch = "complete, scenes updated" /\ AwayFromGimbalLock) =>
    /\ multiplyMatrixVector(extractedScene.rotation, <<0, 0, -ONE>>)
         = multiplyMatrixVector(deviceScene.rotation, <<0, 0, -ONE>>)
    /\ multiplyMatrixVector(extractedScene.rotation, <<ONE, 0, 0>>)
         = multiplyMatrixVector(deviceScene.rotation, <<ONE, 0, 0>>)

\* C3: when beta is 90 degrees the heading and the roll extracted by
\* handleOrientation are NaN.
C3_Beta90IsNaN ==
  (HandledComplete /\ sample[2] = D90) =>
    (IsNaN(angles.heading) /\ IsNaN(angles.roll))

\* how often handleOrientation called a function in its last run
TimesInvoked(name) ==
  Cardinality({ i \in 1..Len(invoked) : invoked[i] = name })

\* C14: normalizeHeadingRange maps a heading of [0,360) into (-180,180]:
\* heading - 360 above 180, the heading itself otherwise, so 270 -> -90,
\* 90 -> 90, 0 -> 0, 180 -> 180; handleOrientation applies it exactly once
\* per complete sample, to the heading of [0,360) that
\* calculateOrientationAngles returned, and displays the result.
C14_NormalizedOncePerSample ==
  /\ fn = "normalizeHeadingRange" /\ numArg >= 0 /\ numArg < D360 =>
       /\ retNumber = IF numArg > D180 THEN numArg - D360 ELSE numArg
       /\ retNumber > -D180 /\ retNumber <= D180
  /\ HandledComplete =>
       /\ TimesInvoked("normalizeHeadingRange") = 1
       /\ angles.heading >= 0 /\ angles.heading < D360
       /\ headingText.lit = "toFixed(1) deg"
       /\ headingText.tenths > -1800 /\ headingText.tenths <= 1800
       /\ headingText.tenths =
            IF angles.heading > D180
            THEN RoundDiv(angles.heading - D360, 100)
            ELSE RoundDiv(angles.heading, 100)
       /\ angles.heading = 3 * D90 => headingText.tenths = -900
       /\ angles.heading = D90 => headingText.tenths = 900
       /\ angles.heading = 0 => headingText.tenths = 0
       /\ angles.heading = D180 => headingText.tenths = 1800

C14_Witness ==
  /\ HandledComplete
  /\ sample = <<D90, D90, 0>>
  /\ angles.heading = 3 * D90
  /\ headingText = [lit |-> "toFixed(1) deg", tenths |-> -900]
  /\ TimesInvoked("normalizeHeadingRange") = 1

\* the eighth of the compass a heading of [0,360) lies in: sector k is
\* centred on 45 * k degrees and holds [45 * k - 22.5, 45 * k + 22.5)
SectorOf(heading) ==
  CHOOSE k \in 0..8 :
    /\ 45000 * k - 22500 <= heading
    /\ heading < 45000 * k + 22500
SectorLabel(heading) == directions[(SectorOf(heading) % 8) + 1]
Labels == { directions[i] : i \in 1..8 }
Canonical(heading) == heading >= 0 /\ heading < D360

\* what C15 says of every heading of [0,360), apart from its examples
LabelIsOfRoundedEighth ==
  /\ fn = "getCompassDirection" /\ Canonical(numArg) =>
       /\ retLabel \in Labels
       /\ retLabel = SectorLabel(numArg)
       /\ numArg = 0 => retLabel = "N"
       /\ numArg = 46000 => retLabel = "NE"
       /\ numArg = D90 => retLabel = "E"
       /\ numArg = 359999 => retLabel = "N"
  /\ HandledComplete =>
       /\ TimesInvoked("getCompassDirection") = 1
       /\ directionText = Literal(SectorLabel(angles.heading))

\* C15 as stated: getCompassDirection(heading) is the label at index
\* round(heading / 45) mod 8 of [N, NE, E, SE, S, SW, W, NW], a label is
\* returned for every heading of [0,360), and 0 -> N, 44 -> N, 46 -> NE,
\* 90 -> E, just below 360 -> N.
C15_LabelWith44North ==
  /\ LabelIsOfRoundedEighth
  /\ fn = "getCompassDirection" /\ numArg = 44000 => retLabel = "N"

\* C15 amended: the same with 44 -> NE (round(44 / 45) is 1); the headings
\* labelled N are those of [0, 22.5) and [337.5, 360), such as 22.
C15_LabelWith44NorthEast ==
  /\ LabelIsOfRoundedEighth
  /\ fn = "getCompassDirection" /\ numArg = 44000 => retLabel = "NE"
  /\ fn = "getCompassDirection" /\ numArg = 22000 => retLabel = "N"
  /\ fn = "getCompassDirection" /\ numArg = 22500 => retLabel = "NE"

C15_Witness ==
  /\ fn = "getCompassDirection"
  /\ numArg = 44000
  /\ retLabel = "NE"

NegatedColumn(M, c) == <<-M[1][c], -M[2][c], -M[3][c]>>

\* C16: the i-th component of multiplyMatrixVector(M, v) is the dot product
\* of row i of M with v; so M * (0,0,-1) is the negated third column of M
\* and M * (1,0,0) its first column; handleOrientation hands these two
\* vectors, and nothing else, to calculateOrientationAngles.
C16_RowsTimesVector ==
  /\ fn = "multiplyMatrixVector" =>
       LET M == mvArgs[1]
           v == mvArgs[2]
       IN  /\ \A i \in 1..3 : ONE * retVector[i] = ExactDot(M[i], v)
           /\ v = <<0, 0, -ONE>> => retVector = NegatedColumn(M, 3)
           /\ v = <<ONE, 0, 0>> => retVector = Column(M, 1)
  /\ branch = "complete, scenes updated" =>
       /\ TimesInvoked("multiplyMatrixVector") = 2
       /\ TimesInvoked("calculateOrientationAngles") = 1
       /\ angles = calculateOrientationAngles(
                     NegatedColumn(deviceScene.rotation, 3),
                     Column(deviceScene.rotation, 1))

C16_Witness ==
  /\ fn = "multiplyMatrixVector"
  /\ mvArgs = << << <<1000, 2000, 3000>>, <<4000, 5000, 6000>>,
                    <<7000, 8000, 9000>> >>, <<0, 0, -1000>> >>
  /\ retVector = <<-3000, -6000, -9000>>

\* the functions handleOrientation called in the run that ends in the next
\* state
InvokedNext == { invoked'[i] : i \in 1..Len(invoked') }
\* the text formatValue gives for an axis of the event
RawText(value) == IF value = Null THEN Literal("--") ELSE Fixed1(value)
\* a step of handleOrientation on an event with a null axis (the same event
\* again changes nothing at all)
HandledIncompleteEvent ==
  /\ branch' = "incomplete"
  /\ <<sample, branch>>' # <<sample, branch>>

\* C17: on an event with alpha, beta or gamma null, handleOrientation calls
\* none of buildRotationMatrix, calculateOrientationAngles,
\* normalizeHeadingRange, buildRotationMatrixFromAngles, updateRotation,
\* leaves the displayed heading, direction, elevation and roll and both
\* scene rotations as they were, and rewrites only the three raw-angle
\* displays, a null axis as '--'.
C17_NullSampleFrame ==
  [][ HandledIncompleteEvent =>
        /\ \E i \in 1..3 : sample'[i] = Null
        /\ InvokedNext \cap { "buildRotationMatrix",
                              "calculateOrientationAngles",
                              "normalizeHeadingRange",
                              "buildRotationMatrixFromAngles",
                              "updateRotation" } = {}
        /\ UNCHANGED <<headingText, directionText, elevationText, rollText>>
        /\ UNCHANGED <<deviceScene, extractedScene>>
        /\ alphaText' = RawText(sample'[1])
        /\ betaText' = RawText(sample'[2])
        /\ gammaText' = RawText(sample'[3]) ]_vars

C17_Witness ==
  /\ branch = "incomplete"
  /\ sample = <<D180, 53130, Null>>
  /\ alphaText = Fixed1(D180)
  /\ gammaText = Literal("--")
  /\ headingText.lit = "toFixed(1) deg"
  /\ deviceScene.made
  /\ deviceScene.rotation # Identity

\* a number other than NaN
IsFinite(x) == x \in Int /\ ~IsNaN(x) /\ x # Null
IsVector3(v) == DOMAIN v = 1..3 /\ \A i \in 1..3 : IsFinite(v[i])
IsMatrix3x3(M) == DOMAIN M = 1..3 /\ \A i \in 1..3 : IsVector3(M[i])

\* C18: every core function returns a result on every numeric input, and
\* NaN appears among the extracted angles only when the vector the angle is
\* taken from has horizontal radius zero.
C18_TotalAndNaNOnlyIfDegenerate ==
  /\ fn \in { "buildRotationMatrix", "buildRotationMatrixFromAngles" } =>
       IsMatrix3x3(retMatrix)
  /\ fn = "multiplyMatrixVector" => IsVector3(retVector)
  /\ fn = "normalizeHeadingRange" => IsFinite(retNumber)
  /\ fn = "calculateOrientationAngles" =>
       /\ DOMAIN retAngles = { "heading", "elevation", "roll" }
       /\ \A f \in DOMAIN retAngles : retAngles[f] \in Int
       /\ IsNaN(retAngles.heading) => Horizontal0(vecArgs[1])
       /\ IsNaN(retAngles.elevation) => Horizontal0(vecArgs[1])
       /\ IsNaN(retAngles.roll) => Horizontal0(vecArgs[2])

C18_Witness ==
  /\ fn = "calculateOrientationAngles"
  /\ vecArgs = << <<0, 0, -1000>>, <<0, 0, 1000>> >>
  /\ retAngles = [heading |-> 0, elevation |-> -D90, roll |-> -D90]

Dashes == Literal("--")

\* C19: whenever the heading computed for a complete sample is NaN,
\* handleOrientation displays '--' for the heading and 'Tilt device' for
\* the direction, never a formatted number; a NaN elevation or roll is
\* displayed as '--'.
C19_NaNShownAsDashes ==
  /\ branch = "complete" /\ IsNaN(lastHeading) =>
       /\ headingText = Dashes
       /\ directionText = Literal("Tilt device")
  /\ HandledComplete /\ IsNaN(angles.heading) =>
       /\ headingText = Dashes
       /\ directionText = Literal("Tilt device")
  /\ HandledComplete /\ IsNaN(angles.elevation) => elevationText = Dashes
  /\ HandledComplete /\ IsNaN(angles.roll) => rollText = Dashes

C19_Witness ==
  /\ branch = "complete"
  /\ sample = <<D90, 0, 0>>
  /\ IsNaN(lastHeading)
  /\ headingText = Dashes
  /\ directionText = Literal("Tilt device")
  /\ "compassHeading" \in { invoked[i] : i \in 1..Len(invoked) }

InvokedNames == { invoked[i] : i \in 1..Len(invoked) }

\* what handleOrientation of the page with the scenes computes from a
\* complete sample, by the pipeline of its lines 97-110 and 138
RawMatrixOf(s) ==
  buildRotationMatrix(TimesPiOver180(s[1]), TimesPiOver180(s[2]),
                      TimesPiOver180(s[3]))
AnglesOf(s) ==
  calculateOrientationAngles(NegatedColumn(RawMatrixOf(s), 3),
                             Column(RawMatrixOf(s), 1))
ReconstructedOf(s) ==
  buildRotationMatrixFromAngles(AnglesOf(s).heading, AnglesOf(s).elevation,
                                AnglesOf(s).roll)

C21_ListenerOnlyWhenGranted ==
  /\ listening <=> registrations > 0
  /\ listening =>
       /\ doeDefined
       /\ hasRequestPermission => permission = "granted"
  /\ branch # "none" => listening
  /\ permission \in { "denied", "rejected" } =>
       ~listening /\ branch = "none" /\ sample = NoSample
  /\ ~doeDefined => ~listening /\ branch = "none" /\ sample = NoSample
  /\ ~hasRequestPermission => permission = "none"

\* the awaited request threw, and the button offers another try
C21_Witness ==
  /\ permission = "rejected"
  /\ buttonText = "Error - Try Again"
  /\ ~listening
  /\ sample = NoSample

\* C21 as it is worded: once a request has ended in a denial or in a thrown
\* error, no orientation event is handled at any later time, so no later
\* step registers the listener or handles an event
C21_NeverHandledAfterDenial ==
  [][(permission \in { "denied", "rejected" }) =>
       (~listening' /\ branch' = "none")]_vars

\* ------------------------------------------------------------------------
\* src/src/main.ts: the displayed range of the heading
\* ------------------------------------------------------------------------

\* a step of handleOrientation of src/src/main.ts that ends with a complete
\* sample whose heading is a number
ToggleHandledNumber ==
  /\ <<sample, branch, lastHeading, headingText, directionText, rawTextVars,
       invoked>>' #
       <<sample, branch, lastHeading, headingText, directionText, rawTextVars,
         invoked>>
  /\ branch' = "complete"
  /\ ~IsNaN(lastHeading')

\* the number an element shows, in tenths of a degree
Shown(text) == text.tenths

\* C22: in src/src/main.ts, when a complete sample with a heading that is a
\* number is handled: the heading is in [0, 360); with the toggle enabled
\* the element shows heading - 360 when heading > 180 and heading otherwise,
\* a value in (-180, 180] (270 is shown as -90.0); with the toggle disabled
\* it shows the heading itself; the label is getCompassDirection of the
\* heading before normalization, one of the eight names, the same in both
\* modes
C22_ToggleChoosesRange ==
  [][ToggleHandledNumber =>
       LET heading == lastHeading'
       IN  /\ heading = CompassHeadingOf(sample')
           /\ 0 <= heading /\ heading < D360
           /\ headingText'.lit = "toFixed(1) deg"
           /\ normalizeHeading /\ heading > D180 =>
                /\ Shown(headingText') = Fixed1(heading - D360).tenths
                /\ Shown(headingText') < 0
           /\ normalizeHeading /\ heading <= D180 =>
                Shown(headingText') = Fixed1(heading).tenths
           /\ normalizeHeading =>
                -1800 <= Shown(headingText') /\ Shown(headingText') <= 1800
           /\ normalizeHeading /\ heading = 3 * D90 =>
                Shown(headingText') = -900
           /\ ~normalizeHeading =>
                /\ Shown(headingText') = Fixed1(heading).tenths
                /\ 0 <= Shown(headingText') /\ Shown(headingText') <= 3600
           /\ directionText' = Literal(getCompassDirection(heading))
           /\ directionText'.lit \in
                { directions[k] : k \in DOMAIN directions }]_vars

\* a heading of 270 degrees handled with the toggle enabled: -90.0 and W
C22_Witness ==
  /\ normalizeHeading
  /\ branch = "complete"
  /\ lastHeading = 3 * D90
  /\ headingText = WithDegreeSign(Fixed1(-D90))
  /\ directionText = Literal("W")

\* C23: a request that ended in a denial or in a thrown error leaves the
\* button enabled and visible, a click is then possible and starts a new
\* request, and a pending request can still end in 'granted' and register
\* the listener; while a request is pending the button is disabled, so no
\* more than one request is pending and addEventListener('deviceorientation')
\* is called at most once
C23_RetryAfterDenialOneRequestAtATime ==
  /\ awaiting \in { 0, 1 }
  /\ awaiting = 1 =>
       /\ buttonDisabled
       /\ ~ENABLED RequestPermission
       /\ ENABLED (PermissionSettles /\ listening' /\ registrations' = 1)
  /\ permission \in { "denied", "rejected" } /\ awaiting = 0 =>
       /\ ~buttonDisabled
       /\ ~buttonHidden
       /\ ENABLED (RequestPermission /\ awaiting' = 1)
  /\ registrations <= 1

\* a second request is pending after the first one was denied
C23_Witness ==
  /\ permission = "denied"
  /\ awaiting = 1
  /\ buttonDisabled
  /\ buttonText = "Requesting permission..."

\* ------------------------------------------------------------------------
\* One sample at a time
\* ------------------------------------------------------------------------

\* the matrix, the angles and the rebuilt matrix of every complete sample
DerivedTable ==
  { <<s, [raw |-> RawMatrixOf(s), angles |-> AnglesOf(s),
          rebuilt |-> ReconstructedOf(s)]>> : s \in CompleteSamples }
DerivedOf(s) == (CHOOSE row \in DerivedTable : row[1] = s)[2]

\* a step of handleOrientation that ends with a complete sample
HandledCompleteEvent ==
  /\ branch' \in { "complete", "complete, scenes updated" }
  /\ <<sample, branch>>' # <<sample, branch>>

\* the text of an angle element for a value in degrees
AngleText(value) ==
  IF IsNaN(value) THEN Dashes ELSE WithDegreeSign(Fixed1(value))

\* C24: a step of handleOrientation on a complete sample is one step: it
\* changes nothing of the button, the permission state or the tabs and
\* creates no scene, and after it the three raw angles, the heading, the
\* direction, the elevation and the roll shown are those of that sample;
\* if both scenes existed before the step, the device scene holds
\* buildRotationMatrix of the sample and the extracted scene holds
\* buildRotationMatrixFromAngles of the angles of the same sample, and
\* otherwise the scenes are as they were
C24_EverythingFromOneSample ==
  [][HandledCompleteEvent =>
       \E row \in DerivedTable :
         /\ row[1] = sample'
         /\ LET d == row[2]
                h == row[2].angles.heading
            IN  /\ alphaText' = Fixed1(sample'[1])
                /\ betaText' = Fixed1(sample'[2])
                /\ gammaText' = Fixed1(sample'[3])
                /\ angles' = d.angles
                /\ headingText' =
                     AngleText(IF h > D180 THEN h - D360 ELSE h)
                /\ directionText' =
                     IF IsNaN(h) THEN Literal("Tilt device")
                     ELSE Literal(SectorLabel(h))
                /\ elevationText' = AngleText(d.angles.elevation)
                /\ rollText' = AngleText(d.angles.roll)
                /\ IF deviceScene.made /\ extractedScene.made
                   THEN /\ deviceScene' =
                             [made |-> TRUE, rotation |-> d.raw]
                        /\ extractedScene' =
                             [made |-> TRUE, rotation |-> d.rebuilt]
                        /\ branch' = "complete, scenes updated"
                   ELSE /\ UNCHANGED <<deviceScene, extractedScene>>
                        /\ branch' = "complete"
                /\ UNCHANGED <<loaded, buttonVars, tabVars,
                               resizeListeners>>]_vars

\* two different samples handled one after the other with the scenes made:
\* the scenes hold the matrices of the second one
C24_Witness ==
  /\ branch = "complete, scenes updated"
  /\ sample = <<D180, 53130, 0>>
  /\ alphaText = Fixed1(D180)
  /\ betaText = Fixed1(53130)
  /\ angles = DerivedOf(sample).angles
  /\ deviceScene.rotation = DerivedOf(sample).raw
  /\ extractedScene.rotation = DerivedOf(sample).rebuilt
  /\ extractedScene.rotation # deviceScene.rotation

\* ------------------------------------------------------------------------
\* The scenes and the tabs
\* ------------------------------------------------------------------------

\* a step creates a scene
SceneCreated ==
  \/ ~deviceScene.made /\ deviceScene'.made
  \/ ~extractedScene.made /\ extractedScene'.made

\* C25: deviceScene and extractedScene are both null or both scenes in every
\* state; the resize listener is added when they are created and at most
\* once; a run of handleOrientation that found no scenes called no
\* updateRotation; a step creates a scene only if it is a switch to the
\* visualization tab with both variables null and both canvases present,
\* and no step replaces or removes a scene
C25_ScenesMadeOnceAndTogether ==
  /\ [](/\ deviceScene.made = extractedScene.made
        /\ resizeListeners = (IF deviceScene.made THEN 1 ELSE 0)
        /\ branch # "complete, scenes updated" =>
             "updateRotation" \notin InvokedNames
        /\ ~deviceScene.made => /\ branch # "complete, scenes updated"
                                /\ deviceScene = NullScene
                                /\ extractedScene = NullScene)
  /\ [][/\ SceneCreated =>
             /\ activeContents' = { "visualization" }
             /\ activeButtons' = { "visualization" }
             /\ canvasesPresent
             /\ ~deviceScene.made /\ ~extractedScene.made
             /\ resizeListeners' = resizeListeners + 1
             /\ UNCHANGED <<sample, branch, invoked>>
        /\ deviceScene.made => deviceScene'.made
        /\ extractedScene.made => extractedScene'.made
        /\ ~SceneCreated => UNCHANGED resizeListeners]_vars

\* the visualization tab was opened, left and opened again, an event having
\* rotated the scenes in between: still the scenes of the first opening
C25_Witness ==
  /\ deviceScene.made /\ extractedScene.made
  /\ resizeListeners = 1
  /\ activeContents = { "visualization" }
  /\ branch = "complete, scenes updated"
  /\ deviceScene.rotation # Identity

\* C26: after a call of switchTab the active buttons are those whose data-tab
\* is the argument and the active contents those whose id is 'tab-' and the
\* argument; so at most one content is active in every state, after a click
\* it is the content of the tab clicked last, and a step changes the active
\* classes only by making the clicked tab the only active one
C26_OnlyTheLastClickedTabActive ==
  /\ [](/\ Cardinality(activeContents) <= 1
        /\ Cardinality(activeButtons) <= 1
        /\ tabName # "none" =>
             /\ \A b \in Tabs : b \in activeButtons <=> b = tabName
             /\ \A c \in Tabs : c \in activeContents <=> c = tabName
        /\ tabName = "none" =>
             activeButtons = { "data" } /\ activeContents = { "data" })
  /\ [][<<activeButtons, activeContents>>' # <<activeButtons, activeContents>>
          => /\ tabName' # tabName
             /\ activeButtons' = { tabName' }
             /\ activeContents' = { tabName' }]_vars

\* visualization was clicked, then data: only data is active again, and the
\* scenes made by the first click are still there
C26_Witness ==
  /\ tabName = "data"
  /\ activeButtons = { "data" }
  /\ activeContents = { "data" }
  /\ deviceScene.made

\* ------------------------------------------------------------------------
\* The implementations of the compass heading
\* ------------------------------------------------------------------------

\* C27: for the sample of a call of compassHeading, compassHeadingFallback
\* and compassHeadingLinearAlgebra return vectors with the same x and the
\* same y, and compassHeading returns the same heading with useLinearAlgebra
\* true and with useLinearAlgebra false
C27_SameHeadingWhicheverImplementation ==
  fn = "compassHeading" =>
    LET fallback ==
          compassHeadingSelected(FALSE, degArgs[1], degArgs[2], degArgs[3])
        linearAlgebra ==
          compassHeadingSelected(TRUE, degArgs[1], degArgs[2], degArgs[3])
    IN  /\ fallback.transformedVector[1].n = linearAlgebra.transformedVector[1].n
        /\ fallback.transformedVector[2].n = linearAlgebra.transformedVector[2].n
        /\ fallback.heading = linearAlgebra.heading
        /\ retNumber \in { fallback.heading, linearAlgebra.heading }

\* the heading components rA and rB of every complete event of the page of
\* src/src/main.ts, and the heading that getHeadingFromVector gives for
\* them with Math.atan2(rA, rB)
Atan2HeadingTable ==
  { LET v == compassHeadingFallback(TimesPiOver180(ev[1]),
                                    TimesPiOver180(ev[2]),
                                    TimesPiOver180(ev[3]))
    IN  <<ev, v[1].n, v[2].n, getHeadingFromVector(v)>> :
    ev \in ToggleSamples }

\* a step of handleOrientation of src/src/main.ts on a complete sample
ToggleHandledComplete ==
  /\ <<sample, branch, lastHeading, headingText, directionText, rawTextVars,
       invoked>>' #
       <<sample, branch, lastHeading, headingText, directionText, rawTextVars,
         invoked>>
  /\ branch' = "complete"

TrueBank(eastVector) == Times180OverPi(Atan2(-eastVector[3], eastVector[1]))

\* the east vector turned half way round the vertical axis
Opposite(eastVector) == <<-eastVector[1], -eastVector[2], eastVector[3]>>

C30_RadiusZeroOnlyLyingFlat ==
  HandledComplete =>
    \E row \in LocalsTable :
      /\ row[1] = sample
      /\ LET northVector == row[2].northVector
             radius == HorizontalRadius(northVector)
             cB == Cos(TimesPiOver180(sample[2]))
             cG == Cos(TimesPiOver180(sample[3]))
         IN  /\ row[2].R = RawMatrixOf(sample)
             /\ northVector = NegatedColumn(row[2].R, 3)
             /\ angles = row[2].angles
             /\ (radius = 0) <=> (Abs(Mul(cB, cG)) = ONE)
             /\ cB = 0 => radius = ONE
             /\ sample = <<0, 0, 0>> =>
                  radius = 0 /\ angles.elevation = -D90
             /\ radius = 0 =>
                  /\ sample[2] \in { 0, D180, -D180 }
                  /\ sample[3] = 0
                  /\ Abs(angles.elevation) = D90
             /\ Abs(sample[2]) = D90 => radius # 0

\* the identity orientation: the north vector is (0, 0, -1), radius 0 and
\* elevation -90
C30_Witness ==
  /\ HandledComplete
  /\ sample = <<0, 0, 0>>
  /\ angles.elevation = -D90
  /\ HorizontalRadius(NegatedColumn(RawMatrixOf(sample), 3)) = 0

====
